---- MODULE Spec2Model ----
(***************************************************************************)
(* A model of predticker's backtest replay loops, weighted scoring engine  *)
(* and regime-adaptive weight store.                                       *)
(*                                                                         *)
(* Numbers.  Prices are integers.  A stop-loss / take-profit level is a    *)
(* rational with denominator 2000 and is held as its numerator, so that    *)
(* every percentage the code multiplies by (0.98, 1.04, 1.05, 0.95 and     *)
(* 1 -+ sl_percent/100 with sl_percent a multiple of 0.05) is exact:       *)
(* "price <= level" reads  Scaled(price) <= level.                         *)
(***************************************************************************)
EXTENDS Integers, Sequences, FiniteSets, TLC

\* ------------------------------------------------------------------ bounds
\* Longest bar sequence replayed by backtest_ticker.
MaxBars == 9

\* Close prices a bar can take: far enough apart for a 2% stop, a 4% / 3%
\* target and a 5% short stop to trigger, with equal neighbours for "hold".
Prices == {95, 100, 105}

\* ------------------------------------------------------- program constants
window_size == 5
initial_capital == 10000

\* The longest rolling window compute_enhanced_features takes: rolling(50).
sma_50_window == 50

None == "None"

\* How a function call stands: still running, returned a value, or left by an
\* exception.  A returned metrics dictionary carries outcome "metrics".
Running == [outcome |-> "running"]
Returned(v) == [outcome |-> v]
Raised(e) == [outcome |-> e]

VARIABLES
    \* --- a backtest replay
    sim,          \* which function runs: "ticker" (backtest_ticker) |
                  \* "enhanced" (backtest_enhanced) | "strategy"
                  \* (backtest_strategy) | "levels" | "score" | "store" | "regime"
    df,           \* the close prices of the fetched bars, 1-based
    i,            \* the replay loop's index, 0-based as in the code
    pc,           \* "start" | "loop" | "call" | "done" | "raised"
    position,     \* None | "LONG" | "SHORT"
    entry_price,
    stop_loss,    \* numerator over 2000
    take_profit,  \* numerator over 2000
    trades,       \* the sequence of trade records
    equity,       \* in backtest_strategy: total_return
    predictions,  \* the accuracy bookkeeping records
    result,       \* how the function ended: Running, Returned(None), a
                  \* metrics record, or Raised(the exception that left it)
    opened,       \* history: how many positions were opened so far
    entry_bar,    \* history: the bar index at which the open position was entered
    \* --- a RegimeAdaptiveWeights object and the weights file
    regime_weights,
    tested_combinations,
    is_trained,
    file,         \* None, or the pickled dictionary save_weights wrote
    \* --- a call of a pure function
    call,         \* its arguments
    ret           \* None before the call, then what it returned; in a
                  \* replay, the exception the last bar's processing raised

replayVars == <<sim, df, i, pc, position, entry_price, stop_loss, take_profit,
                trades, equity, predictions, result, opened, entry_bar>>
storeVars == <<regime_weights, tested_combinations, is_trained, file>>
callVars == <<call, ret>>
vars == <<replayVars, storeVars, callVars>>

Scaled(p) == p * 2000

\* df.iloc[k]["Close"] for a 0-based k
Close(k) == df[k + 1]

Abs(x) == IF x < 0 THEN -x ELSE x

RECURSIVE SumOver(_, _, _)
SumOver(f(_), lo, hi) == IF lo > hi THEN 0 ELSE f(lo) + SumOver(f, lo + 1, hi)

\* A float held as a reduced fraction.
RECURSIVE GCD(_, _)
GCD(a, b) == IF b = 0 THEN a ELSE GCD(b, a % b)
Ratio(n, d) == [num |-> n \div GCD(n, d), den |-> d \div GCD(n, d)]
RatioLess(x, y) == x.num * y.den < y.num * x.den

\* The result of a float division of two non-negative numbers that does not
\* raise (numpy.float64): x / 0 is inf, 0 / 0 is nan.
Infinity == [kind |-> "inf"]
NotANumber == [kind |-> "nan"]
Finite(n, d) == [kind |-> "finite", value |-> Ratio(n, d)]
FloatDiv(n, d) ==
    IF d # 0 THEN Finite(n, d) ELSE IF n = 0 THEN NotANumber ELSE Infinity

\* The sums a metrics block takes over a column xs of PnL or return values:
\* of the strictly positive entries, of the others, of the strictly negative.
Column(trs, Field(_)) == [n \in 1..Len(trs) |-> Field(trs[n])]
SumPositive(xs) ==
    LET term(n) == IF xs[n] > 0 THEN xs[n] ELSE 0 IN SumOver(term, 1, Len(xs))
SumNonPositive(xs) ==
    LET term(n) == IF xs[n] <= 0 THEN xs[n] ELSE 0 IN SumOver(term, 1, Len(xs))

\* ------------------------------------------------------ backtest.py features
\* df.iloc[i-window_size:i]: the window_size closes before bar k, 0-based t.
Window(k, t) == Close(k - window_size + t)

\* _compute_slope: the sign of the least-squares slope is the sign of
\* sum_t (2t - (n-1)) * p_t.
SlopeNum(k) ==
    LET term(t) == (2 * t - (window_size - 1)) * Window(k, t)
    IN  SumOver(term, 0, window_size - 1)

\* last_return = prices[-1] / prices[0] - 1 (prices positive).
LastReturnPositive(k) == Window(k, window_size - 1) > Window(k, 0)

\* volatility < avg_volatility, with volatility the sample standard deviation of
\* the window and avg_volatility the mean of the rolling(2) standard deviations
\* |d|/sqrt(2): squared and cleared of denominators for n = window_size,
\*   2n * (n * sum p^2 - (sum p)^2) < (sum |d|)^2 * n ... see LowVolatility.
LowVolatility(k) ==
    LET n       == window_size
        p(t)    == Window(k, t)
        sq(t)   == p(t) * p(t)
        d(t)    == Abs(p(t) - p(t - 1))
        sumP    == SumOver(p, 0, n - 1)
        sumSq   == SumOver(sq, 0, n - 1)
        sumD    == SumOver(d, 1, n - 1)
    IN  \* S/(n-1) < (sumD / ((n-1) * sqrt 2))^2, S = (n*sumSq - sumP^2)/n
        2 * (n - 1) * (n * sumSq - sumP * sumP) < n * sumD * sumD

\* rule_based_prediction_4h of backtest.py
rule_based_prediction_4h(k) ==
    LET score == (IF SlopeNum(k) > 0 THEN 1 ELSE 0)
               + (IF LastReturnPositive(k) THEN 1 ELSE 0)
               + (IF LowVolatility(k) THEN 1 ELSE 0)
    IN  IF score >= 2 THEN "Up" ELSE "Down"

\* --------------------------------------------------------- feature snapshots
\* A feature is an integer or NaN, a value outside every feature's range that
\* stands for pandas' not-a-number.  Units: bb_position in hundredths,
\* atr_percent in tenths of a percent, every other feature in its own unit.
NaN == -(1000 * 1000)

\* Python's < and > : False as soon as one side is NaN.
Lt(a, b) == a # NaN /\ b # NaN /\ a < b
Gt(a, b) == a # NaN /\ b # NaN /\ a > b

\* Python's builtin min(a, b) and max(a, b): the first argument unless the
\* second compares smaller (greater), so a NaN second argument is dropped.
PyMin(a, b) == IF Lt(b, a) THEN b ELSE a
PyMax(a, b) == IF Gt(b, a) THEN b ELSE a

\* x * k in floating point: NaN stays NaN.
Times(x, k) == IF x = NaN THEN NaN ELSE x * k

\* Sub-scores are rationals with denominator 120 (the denominators 3, 4, 2 and
\* 40 of the five normalisations divide it), held as numerators.
Full == 3 * 40

\* A normalisation without the clamp.
Unclamped(x) == x

\* max(0, min(1, x)) on numerators over 120.
Clamp01(x) == PyMax(0, PyMin(Full, x))

\* 1. Trend: trend_score / 3.0
TrendNormalized(f) ==
    LET trend_score == (IF Gt(f.slope, 0) THEN 1 ELSE 0)
                     + (IF Gt(f.sma_20, f.sma_50) THEN 1 ELSE 0)
                     + (IF Gt(f.ema_12, f.ema_26) THEN 1 ELSE 0)
    IN  trend_score * 40

\* A bug MomentumScore could have: the RSI thresholds taken inclusively.
MomentumScoreInclusive(f) ==
    (IF f.rsi # NaN /\ f.rsi <= 30 THEN 2
     ELSE IF f.rsi # NaN /\ f.rsi <= 50 THEN 1
     ELSE IF f.rsi # NaN /\ f.rsi >= 70 THEN -2
     ELSE 0)
  + (IF Gt(f.macd_histogram, 0) /\ Gt(f.macd, f.macd_signal) THEN 1
     ELSE IF Lt(f.macd_histogram, 0) /\ Lt(f.macd, f.macd_signal) THEN -1
     ELSE 0)

\* 2. Momentum: max(0, min(1, (momentum_score + 2) / 4.0))
MomentumScore(f) ==
    (IF Lt(f.rsi, 30) THEN 2
     ELSE IF Lt(f.rsi, 50) THEN 1
     ELSE IF Gt(f.rsi, 70) THEN -2
     ELSE 0)
  + (IF Gt(f.macd_histogram, 0) /\ Gt(f.macd, f.macd_signal) THEN 1
     ELSE IF Lt(f.macd_histogram, 0) /\ Lt(f.macd, f.macd_signal) THEN -1
     ELSE 0)

MomentumNormalized(f) == Clamp01((MomentumScore(f) + 2) * 30)

\* 3. Volatility: max(0, min(1, (volatility_score + 1) / 2.0))
VolatilityScore(f) ==
    (IF Lt(f.bb_position, 20) THEN 1
     ELSE IF Gt(f.bb_position, 80) THEN -1
     ELSE 0)
  + (IF Lt(f.atr_percent, 10) THEN 1
     ELSE IF Gt(f.atr_percent, 30) THEN -1
     ELSE 0)

VolatilityNormalized(f) == Clamp01((VolatilityScore(f) + 1) * 60)

\* 4. Trend strength: max(0, min(1, adx / 40.0))
TrendStrengthNormalized(f) == Clamp01(Times(f.adx, 3))

\* 5. Stochastic: max(0, min(1, (stoch_score + 1) / 2.0)); twice stoch_score here.
StochScore2(f) ==
    (IF Lt(f.k_stoch, 20) THEN 2
     ELSE IF Gt(f.k_stoch, 80) THEN -2
     ELSE 0)
  + (IF Gt(f.k_stoch, f.d_stoch) THEN 1
     ELSE IF Lt(f.k_stoch, f.d_stoch) THEN -1
     ELSE 0)

StochNormalized(f) == Clamp01((StochScore2(f) + 2) * 30)

Categories == {"trend", "momentum", "volatility", "trend_strength", "stochastic"}

\* The five normalised sub-scores of a snapshot (numerators over 120).
Components(f) ==
    [trend |-> TrendNormalized(f), momentum |-> MomentumNormalized(f),
     volatility |-> VolatilityNormalized(f),
     trend_strength |-> TrendStrengthNormalized(f),
     stochastic |-> StochNormalized(f)]

\* Weights are hundredths.  The static defaults of both engines.
StaticWeights ==
    [trend |-> 20, momentum |-> 25, volatility |-> 20, trend_strength |-> 20,
     stochastic |-> 15]

\* sum(component * weight): a numerator over 120 * 100 = 12000.
WeightedScore(c, w) ==
    c.trend * w.trend + c.momentum * w.momentum + c.volatility * w.volatility
    + c.trend_strength * w.trend_strength + c.stochastic * w.stochastic

\* 0.5 as a score numerator.
Half == (Full * 100) \div 2

\* A threshold that counts 0.5 as bullish.
BullishFromHalf(score) == score >= Half

\* "Up" if final_score > 0.5 else "Down"
Bullish(score) == score > Half

\* confidence = abs(final_score - 0.5) * 200, in sixtieths of a percent
\* (12000 / 200 = 60): ConfidencePct(20) is 20%.
Confidence(score) == Abs(score - Half)
ConfidencePct(pct) == pct * 60

\* enhanced_prediction of enhanced_predictor.py: static weights.
enhanced_prediction(f) ==
    LET c == Components(f)
        final_score == WeightedScore(c, StaticWeights)
    IN  [prediction |-> IF Bullish(final_score) THEN "Up" ELSE "Down",
         score |-> final_score,
         confidence |-> Confidence(final_score),
         weights |-> c]

\* ------------------------------------------------------- the replay's steps
\* The accuracy bookkeeping of one bar: appended only when bar k has a successor.
TrackPrediction(preds, k, predicted) ==
    IF k + 1 < Len(df)
    THEN LET actual == IF Close(k + 1) > Close(k) THEN "Up" ELSE "Down"
         IN  Append(preds, [bar |-> k, predicted |-> predicted, actual |-> actual,
                            correct |-> (predicted = actual)])
    ELSE preds

\* A bug CanEnter could have: the `position is None` test dropped.
CanEnterAlways(pos) == TRUE

\* The guard of both entry branches: a position is opened only when none is open.
CanEnter(pos) == pos = None

\* A bug TickerEntry could have: no position opened on a "Down" prediction.
TickerEntryUpOnly(pos, prediction, price, k) ==
    IF CanEnter(pos.position) /\ prediction = "Up"
    THEN [position |-> "LONG", entry_price |-> price,
          stop_loss |-> price * 1960, take_profit |-> price * 2080,
          opened |-> pos.opened + 1, entry_bar |-> k]
    ELSE pos

\* backtest_ticker's entry signals: the position state after the entry block.
TickerEntry(pos, prediction, price, k) ==
    IF CanEnter(pos.position) /\ prediction = "Up"
    THEN [position |-> "LONG", entry_price |-> price,
          stop_loss |-> price * 1960, take_profit |-> price * 2080,
          opened |-> pos.opened + 1, entry_bar |-> k]
    ELSE IF CanEnter(pos.position) /\ prediction = "Down"
    THEN [position |-> "SHORT", entry_price |-> price,
          stop_loss |-> price * 2100, take_profit |-> price * 1900,
          opened |-> pos.opened + 1, entry_bar |-> k]
    ELSE pos

\* generate_trading_levels of enhanced_predictor.py.  sl_percent is held in
\* twentieths of a percent (atr_percent * 1.5 with atr_percent in tenths), the
\* levels as numerators over 2000.
SlPercent(atr_percent) == PyMin(60, PyMax(30, Times(atr_percent, 3)))

\* A bug generate_trading_levels could have: the target at three times the stop.
generate_trading_levels_wide(price, prediction, atr_percent) ==
    LET sl_percent == SlPercent(atr_percent)
        tp_percent == sl_percent * 3
    IN  IF prediction = "Up"
        THEN [stop_loss |-> price * (2000 - sl_percent),
              take_profit |-> price * (2000 + tp_percent)]
        ELSE [stop_loss |-> price * (2000 + sl_percent),
              take_profit |-> price * (2000 - tp_percent)]

\* A bug generate_trading_levels could have: the stop put at the entry price.
generate_trading_levels_tight(price, prediction, atr_percent) ==
    LET tp_percent == SlPercent(atr_percent) * 2
    IN  IF prediction = "Up"
        THEN [stop_loss |-> price * 2000,
              take_profit |-> price * (2000 + tp_percent)]
        ELSE [stop_loss |-> price * 2000,
              take_profit |-> price * (2000 - tp_percent)]

\* generate_trading_levels of enhanced_predictor.py (lines 370-410).

generate_trading_levels(price, prediction, atr_percent) ==
    LET sl_percent == SlPercent(atr_percent)
        tp_percent == sl_percent * 2
    IN  IF prediction = "Up"
        THEN [stop_loss |-> price * (2000 - sl_percent),
              take_profit |-> price * (2000 + tp_percent)]
        ELSE [stop_loss |-> price * (2000 + sl_percent),
              take_profit |-> price * (2000 - tp_percent)]

\* backtest_enhanced's trading logic: the position state after the entry block.
EnhancedEntry(pos, res, f, price, k) ==
    IF CanEnter(pos.position) /\ res.confidence > ConfidencePct(20)
    THEN LET levels == generate_trading_levels(price, res.prediction, f.atr_percent)
         IN  [position |-> IF res.prediction = "Up" THEN "LONG" ELSE "SHORT",
              entry_price |-> price,
              stop_loss |-> levels.stop_loss, take_profit |-> levels.take_profit,
              opened |-> pos.opened + 1, entry_bar |-> k]
    ELSE pos

\* Which exit fires for the position at this close: "Stop Loss", "Take Profit" or None.
ExitReason(pos, price) ==
    IF pos.position = "LONG"
    THEN IF Scaled(price) <= pos.stop_loss THEN "Stop Loss"
         ELSE IF Scaled(price) >= pos.take_profit THEN "Take Profit"
         ELSE None
    ELSE IF pos.position = "SHORT"
    THEN IF Scaled(price) >= pos.stop_loss THEN "Stop Loss"
         ELSE IF Scaled(price) <= pos.take_profit THEN "Take Profit"
         ELSE None
    ELSE None

\* A variant of ExitPrice: the exit recorded at the level that triggered
\* (rounded down to a price), not at the close.
ExitPriceAtLevel(pos, price) ==
    IF pos.position = "LONG"
    THEN (IF Scaled(price) <= pos.stop_loss THEN pos.stop_loss ELSE pos.take_profit) \div 2000
    ELSE (IF Scaled(price) >= pos.stop_loss THEN pos.stop_loss ELSE pos.take_profit) \div 2000

\* The price a stop / target exit is recorded at: the triggering bar's close.
ExitPrice(pos, price) == price

\* The trade record appended when the position is closed at exit_price.
TradeRecord(pos, exit_price, reason, k) ==
    LET pnl == IF pos.position = "LONG" THEN exit_price - pos.entry_price
                                         ELSE pos.entry_price - exit_price
    IN  [Entry |-> pos.entry_price, Exit |-> exit_price, Type |-> pos.position,
         PnL |-> pnl, Reason |-> reason,
         Stop |-> pos.stop_loss, Target |-> pos.take_profit,
         EntryBar |-> pos.entry_bar, ExitBar |-> k]

Pos == [position |-> position, entry_price |-> entry_price, stop_loss |-> stop_loss,
        take_profit |-> take_profit, opened |-> opened, entry_bar |-> entry_bar]

\* The entry + exit blocks of one bar, on position state `after` the entry block.
ApplyBar(after, price, k) ==
    LET reason == ExitReason(after, price)
    IN  /\ entry_price' = after.entry_price
        /\ stop_loss' = after.stop_loss
        /\ take_profit' = after.take_profit
        /\ opened' = after.opened
        /\ entry_bar' = after.entry_bar
        /\ IF reason # None
           THEN LET t == TradeRecord(after, ExitPrice(after, price), reason, k)
                IN  /\ trades' = Append(trades, t)
                    /\ equity' = equity + t.PnL
                    /\ position' = None
           ELSE /\ position' = after.position
                /\ UNCHANGED <<trades, equity>>

\* One iteration of backtest_ticker's loop (lines 110-214).
TickerBar ==
    /\ sim = "ticker"
    /\ pc = "loop"
    /\ i < Len(df)
    /\ LET prediction == rule_based_prediction_4h(i)
           price      == Close(i)
       IN  /\ predictions' = TrackPrediction(predictions, i, prediction)
           /\ ApplyBar(TickerEntry(Pos, prediction, price, i), price, i)
    /\ i' = i + 1
    /\ ret' = None
    /\ UNCHANGED <<sim, df, pc, result, storeVars, call>>

\* An iteration of backtest_ticker's loop in which compute_4h_features raises
\* (LinearRegression.fit rejects a window holding a missing close, lines
\* 112-113): no handler encloses the loop body, the exception leaves the function.
TickerBarRaises ==
    /\ sim = "ticker"
    /\ pc = "loop"
    /\ i < Len(df)
    /\ ret' = "ValueError"
    /\ result' = Raised("ValueError")
    /\ pc' = "raised"
    /\ UNCHANGED <<sim, df, i, position, entry_price, stop_loss, take_profit,
                   trades, equity, predictions, opened, entry_bar, storeVars, call>>

\* A total return that forgets to take the initial capital off the equity.
TotalReturnOfEquity(eq) == [num |-> eq * 100, den |-> initial_capital]

\* total_return = ((equity - initial_capital) / initial_capital) * 100, as an
\* unreduced fraction (the numerator may be negative).
TotalReturn(eq) == [num |-> (eq - initial_capital) * 100, den |-> initial_capital]

\* win_rate of backtest_ticker and backtest_enhanced: the percentage of trades
\* with PnL > 0 (the trade list is not empty here).
WinRate(trs) ==
    Ratio(Cardinality({n \in 1..Len(trs) : trs[n].PnL > 0}) * 100, Len(trs))

\* profit_factor of backtest_ticker (line 250): the sum of the positive PnL over
\* the absolute sum of the PnL <= 0 when a trade has PnL <= 0, else inf.
TickerProfitFactor(trs) ==
    LET PnL(t) == t.PnL
        pnl == Column(trs, PnL)
        losing_trades == Cardinality({n \in 1..Len(trs) : pnl[n] <= 0})
    IN  IF losing_trades > 0
        THEN FloatDiv(Abs(SumPositive(pnl)), Abs(SumNonPositive(pnl)))
        ELSE Infinity

\* What the metrics block returns (lines 235-297): None without trades; with
\* trades but no prediction the prints read unbound names.
TickerMetrics(trs, eq, preds) ==
    IF Len(trs) = 0 THEN Returned(None)
    ELSE IF Len(preds) = 0 THEN Raised("NameError")
    ELSE [outcome |-> "metrics",
          final_equity |-> eq,
          net |-> eq - initial_capital,
          trades |-> Len(trs),
          winning_trades |-> Cardinality({n \in 1..Len(trs) : trs[n].PnL > 0}),
          losing_trades |-> Cardinality({n \in 1..Len(trs) : trs[n].PnL <= 0}),
          total_return |-> TotalReturn(eq),
          win_rate |-> WinRate(trs),
          profit_factor |-> TickerProfitFactor(trs),
          total_predictions |-> Len(preds),
          correct_predictions |-> Cardinality({n \in 1..Len(preds) : preds[n].correct})]

\* A bug ClosesAtEnd could have: the end-of-data block left out.
ClosesAtEndNever(pos) == FALSE

\* Whether the end-of-data block force-closes an open position.
ClosesAtEnd(pos) == pos # None

\* After the loop: close any open position at the final close, then the metrics
\* (lines 216-297).
TickerFinish ==
    /\ sim = "ticker"
    /\ pc = "loop"
    /\ i >= Len(df)
    /\ LET final_price == Close(Len(df) - 1)
           closes == ClosesAtEnd(position)
           t == TradeRecord(Pos, final_price, "End of Period", Len(df) - 1)
           trs == IF closes THEN Append(trades, t) ELSE trades
           eq == IF closes THEN equity + t.PnL ELSE equity
       IN  /\ trades' = trs
           /\ equity' = eq
           /\ result' = TickerMetrics(trs, eq, predictions)
    /\ pc' = "done"
    /\ UNCHANGED <<sim, df, i, position, entry_price, stop_loss, take_profit,
                   predictions, opened, entry_bar, storeVars, callVars>>

\* The snapshots compute_enhanced_features yields on backtest_enhanced's
\* window_size-bar window: every rolling(14), rolling(20) and rolling(50)
\* indicator is NaN, the slope, the EMAs and the MACD are defined.
WindowSnapshots ==
    {[slope |-> sl, sma_20 |-> NaN, sma_50 |-> NaN,
      ema_12 |-> e, ema_26 |-> 0, rsi |-> NaN,
      macd |-> e, macd_signal |-> e - h, macd_histogram |-> h,
      bb_position |-> NaN, atr_percent |-> NaN, adx |-> NaN,
      k_stoch |-> NaN, d_stoch |-> NaN] :
        sl \in {-1, 1}, e \in {-1, 1}, h \in {-1, 0, 1}}

\* One iteration of backtest_enhanced's loop (lines 31-121); the snapshot of the
\* window is the input.
EnhancedBar ==
    /\ sim = "enhanced"
    /\ pc = "loop"
    /\ i < Len(df)
    /\ \E features \in WindowSnapshots :
         LET res   == enhanced_prediction(features)
             price == Close(i)
         IN  /\ predictions' = TrackPrediction(predictions, i, res.prediction)
             /\ ApplyBar(EnhancedEntry(Pos, res, features, price, i), price, i)
    /\ i' = i + 1
    /\ ret' = None
    /\ UNCHANGED <<sim, df, pc, result, storeVars, call>>

\* An iteration of backtest_enhanced's loop in which compute_enhanced_features
\* raises (lines 32-33): no handler encloses the loop body either.
EnhancedBarRaises ==
    /\ sim = "enhanced"
    /\ pc = "loop"
    /\ i < Len(df)
    /\ ret' = "ValueError"
    /\ result' = Raised("ValueError")
    /\ pc' = "raised"
    /\ UNCHANGED <<sim, df, i, position, entry_price, stop_loss, take_profit,
                   trades, equity, predictions, opened, entry_bar, storeVars, call>>

\* What backtest_enhanced returns (lines 123-187): None without trades.
EnhancedMetrics(trs, eq, preds) ==
    IF Len(trs) = 0 THEN Returned(None)
    ELSE [outcome |-> "metrics",
          final_equity |-> eq,
          net |-> eq - initial_capital,
          trades |-> Len(trs),
          winning_trades |-> Cardinality({n \in 1..Len(trs) : trs[n].PnL > 0}),
          losing_trades |-> Cardinality({n \in 1..Len(trs) : trs[n].PnL <= 0}),
          total_return |-> TotalReturn(eq),
          win_rate |-> WinRate(trs),
          total_predictions |-> Len(preds),
          correct_predictions |-> Cardinality({n \in 1..Len(preds) : preds[n].correct})]

\* After backtest_enhanced's loop: the metrics, straight away (lines 123-187).
EnhancedFinish ==
    /\ sim = "enhanced"
    /\ pc = "loop"
    /\ i >= Len(df)
    /\ result' = EnhancedMetrics(trades, equity, predictions)
    /\ pc' = "done"
    /\ UNCHANGED <<sim, df, i, position, entry_price, stop_loss, take_profit,
                   trades, equity, predictions, opened, entry_bar, storeVars, callVars>>

\* ------------------------------------------- regime_weights.py: the weight store
\* A Python dict is a function on its keys; the empty dict is <<>>.
DictGet(d, k, default) == IF k \in DOMAIN d THEN d[k] ELSE default
DictSet(d, k, v) == (k :> v) @@ d

\* The state of one RegimeAdaptiveWeights object.
Store ==
    [regime_weights |-> regime_weights,
     tested_combinations |-> tested_combinations,
     is_trained |-> is_trained]

StoreIs(s) ==
    /\ regime_weights = s.regime_weights
    /\ tested_combinations = s.tested_combinations
    /\ is_trained = s.is_trained

StoreBecomes(s) ==
    /\ regime_weights' = s.regime_weights
    /\ tested_combinations' = s.tested_combinations
    /\ is_trained' = s.is_trained

\* The weights file: absent, or the pickled attributes of a store.
NoFile == [exists |-> FALSE]

\* RegimeAdaptiveWeights.__init__
NewStore == [regime_weights |-> <<>>, tested_combinations |-> <<>>, is_trained |-> FALSE]

StoreFresh == StoreIs(NewStore)

\* A catalogue whose first candidate carries 0.30 on trend.
generate_weight_combinations_skewed ==
    << [trend |-> 30, momentum |-> 25, volatility |-> 20, trend_strength |-> 20,
        stochastic |-> 15, name |-> "standard"],
       [trend |-> 15, momentum |-> 40, volatility |-> 15, trend_strength |-> 20,
        stochastic |-> 10, name |-> "momentum_heavy"],
       [trend |-> 35, momentum |-> 15, volatility |-> 20, trend_strength |-> 25,
        stochastic |-> 5, name |-> "trend_heavy"],
       [trend |-> 15, momentum |-> 20, volatility |-> 35, trend_strength |-> 15,
        stochastic |-> 15, name |-> "volatility_aware"],
       [trend |-> 15, momentum |-> 20, volatility |-> 15, trend_strength |-> 40,
        stochastic |-> 10, name |-> "adx_focused"],
       [trend |-> 20, momentum |-> 30, volatility |-> 25, trend_strength |-> 15,
        stochastic |-> 10, name |-> "balanced"] >>

\* generate_weight_combinations: the six named candidates, in hundredths.
generate_weight_combinations ==
    << [trend |-> 20, momentum |-> 25, volatility |-> 20, trend_strength |-> 20,
        stochastic |-> 15, name |-> "standard"],
       [trend |-> 15, momentum |-> 40, volatility |-> 15, trend_strength |-> 20,
        stochastic |-> 10, name |-> "momentum_heavy"],
       [trend |-> 35, momentum |-> 15, volatility |-> 20, trend_strength |-> 25,
        stochastic |-> 5, name |-> "trend_heavy"],
       [trend |-> 15, momentum |-> 20, volatility |-> 35, trend_strength |-> 15,
        stochastic |-> 15, name |-> "volatility_aware"],
       [trend |-> 15, momentum |-> 20, volatility |-> 15, trend_strength |-> 40,
        stochastic |-> 10, name |-> "adx_focused"],
       [trend |-> 20, momentum |-> 30, volatility |-> 25, trend_strength |-> 15,
        stochastic |-> 10, name |-> "balanced"] >>

\* A classifier whose ADX thresholds are inclusive.
detect_market_regime_inclusive(features) ==
    IF features.adx # NaN /\ features.adx >= 30
    THEN (IF Gt(features.atr_percent, 25) THEN "trending_strong_high_vol"
          ELSE "trending_strong_low_vol")
    ELSE IF features.adx # NaN /\ features.adx >= 20
    THEN (IF Gt(features.atr_percent, 25) THEN "trending_weak_high_vol"
          ELSE "trending_weak_low_vol")
    ELSE (IF Gt(features.atr_percent, 25) THEN "ranging_high_vol"
          ELSE "ranging_low_vol")

\* detect_market_regime: ADX above 30 / above 20, ATR percent above 2.5.
detect_market_regime(features) ==
    IF Gt(features.adx, 30)
    THEN (IF Gt(features.atr_percent, 25) THEN "trending_strong_high_vol"
          ELSE "trending_strong_low_vol")
    ELSE IF Gt(features.adx, 20)
    THEN (IF Gt(features.atr_percent, 25) THEN "trending_weak_high_vol"
          ELSE "trending_weak_low_vol")
    ELSE (IF Gt(features.atr_percent, 25) THEN "ranging_high_vol"
          ELSE "ranging_low_vol")

\* word in regime, for the three words get_adaptive_weights looks for.
RegimeContains(regime, word) ==
    regime \in (CASE word = "strong" ->
                       {"trending_strong_high_vol", "trending_strong_low_vol"}
                  [] word = "weak" ->
                       {"trending_weak_high_vol", "trending_weak_low_vol"}
                  [] word = "high_vol" ->
                       {"trending_strong_high_vol", "trending_weak_high_vol",
                        "ranging_high_vol"})


\* The simplified score of test_weight_combination for one sample (a numerator
\* over 12000, or NaN): two trend votes over three, a momentum score from the RSI
\* alone, the distance of bb_position from the middle of the band (bb_position
\* values are multiples of 0.05, which keeps the division exact), ADX / 40
\* capped above only, the stochastic from %K alone.
SampleScore(weight_combo, features) ==
    LET trend_score == (IF Gt(features.slope, 0) THEN 1 ELSE 0)
                     + (IF Gt(features.sma_20, features.sma_50) THEN 1 ELSE 0)
        trend_normalized == trend_score * 40
        rsi == features.rsi
        momentum_normalized ==
            IF Lt(rsi, 30) THEN Full
            ELSE IF Lt(rsi, 50) THEN Full \div 2
            ELSE IF Gt(rsi, 70) THEN 0
            ELSE Full \div 2
        bb_position == features.bb_position
        volatility_normalized ==
            Clamp01(IF bb_position = NaN THEN NaN
                    ELSE Full - (Abs(bb_position - 50) * 2 * Full) \div 100)
        trend_strength_normalized == PyMin(Times(features.adx, 3), Full)
        k_stoch == features.k_stoch
        stoch_normalized ==
            IF Lt(20, k_stoch) /\ Lt(k_stoch, 80) THEN Full \div 2
            ELSE IF Lt(k_stoch, 20) THEN Full
            ELSE 0
    IN  IF trend_strength_normalized = NaN THEN NaN
        ELSE trend_normalized * weight_combo.trend
           + momentum_normalized * weight_combo.momentum
           + volatility_normalized * weight_combo.volatility
           + trend_strength_normalized * weight_combo.trend_strength
           + stoch_normalized * weight_combo.stochastic

\* test_weight_combination: the percentage of samples whose predicted direction
\* (1 if final_score > 0.5 else 0) equals the sample's 'actual'; 0.0 on lists
\* of different lengths and on empty lists.
test_weight_combination(weight_combo, features_list, predictions_list) ==
    IF Len(features_list) # Len(predictions_list) THEN Ratio(0, 1)
    ELSE LET predicted(n) ==
                 IF Gt(SampleScore(weight_combo, features_list[n]), Half) THEN 1 ELSE 0
             correct_count ==
                 Cardinality({n \in 1..Len(features_list) :
                                 predicted(n) = predictions_list[n].actual})
         IN  IF Len(predictions_list) > 0
             THEN Ratio(correct_count * 100, Len(predictions_list))
             ELSE Ratio(0, 1)

\* sorted(combinations, key=accuracy, reverse=True): descending and stable, so
\* equally accurate candidates keep their catalogue order.
SortedByAccuracy(combinations) ==
    LET N == Len(combinations)
        rank(n) == 1 + Cardinality({m \in 1..N :
                         \/ RatioLess(combinations[n].accuracy, combinations[m].accuracy)
                         \/ /\ m < n
                            /\ combinations[m].accuracy = combinations[n].accuracy})
    IN  [r \in 1..N |-> combinations[CHOOSE n \in 1..N : rank(n) = r]]

\* The loop of train over the candidates (lines 218-225): each candidate's entry
\* of tested_combinations is written, the others are left as they were.
RECURSIVE RecordTested(_, _, _)
RecordTested(tested, combinations, n) ==
    IF n > Len(combinations) THEN tested
    ELSE LET combo == combinations[n]
             entry == [weights |-> [k \in DOMAIN combo \ {"name", "accuracy"} |-> combo[k]],
                       accuracy |-> combo.accuracy]
         IN  RecordTested(DictSet(tested, combo.name, entry), combinations, n + 1)

\* train: every candidate is measured on the corpus, the most accurate one goes
\* to the two trending buckets and the third most accurate one to the two
\* ranging buckets.
train(store, features_list, predictions_list) ==
    LET catalogue == generate_weight_combinations
        combinations ==
            [n \in 1..Len(catalogue) |->
                DictSet(catalogue[n], "accuracy",
                        test_weight_combination(catalogue[n], features_list,
                                                predictions_list))]
        best_combos == SortedByAccuracy(combinations)
        third == IF Len(best_combos) > 2 THEN best_combos[3] ELSE best_combos[1]
        rw1 == DictSet(store.regime_weights, "trending_strong", best_combos[1])
        rw2 == DictSet(rw1, "trending_weak", best_combos[1])
        rw3 == DictSet(rw2, "ranging", third)
        rw4 == DictSet(rw3, "ranging_high", third)
    IN  [regime_weights |-> rw4,
         tested_combinations |-> RecordTested(store.tested_combinations, combinations, 1),
         is_trained |-> TRUE]

\* Defaults that weigh the five categories alike.
default_weights_even ==
    [trend |-> 20, momentum |-> 20, volatility |-> 20, trend_strength |-> 20,
     stochastic |-> 20]

\* _default_weights
default_weights == StaticWeights

\* get_adaptive_weights: the defaults from an untrained store or an empty
\* bucket, else the five category entries of the regime's bucket.
get_adaptive_weights(store, features) ==
    IF ~store.is_trained THEN default_weights
    ELSE LET regime == detect_market_regime(features)
             weights ==
                 IF RegimeContains(regime, "strong")
                 THEN DictGet(store.regime_weights, "trending_strong", <<>>)
                 ELSE IF RegimeContains(regime, "weak")
                 THEN DictGet(store.regime_weights, "trending_weak", <<>>)
                 ELSE IF RegimeContains(regime, "high_vol")
                 THEN DictGet(store.regime_weights, "ranging_high", <<>>)
                 ELSE DictGet(store.regime_weights, "ranging", <<>>)
         IN  IF DOMAIN weights = {} THEN default_weights
             ELSE [trend |-> DictGet(weights, "trend", 20),
                   momentum |-> DictGet(weights, "momentum", 25),
                   volatility |-> DictGet(weights, "volatility", 20),
                   trend_strength |-> DictGet(weights, "trend_strength", 20),
                   stochastic |-> DictGet(weights, "stochastic", 15)]

\* The table backtest_adaptive_weights.main installs when it is given no
\* weights file, with is_trained set.
backtest_default_tables(store) ==
    LET wide == [trend |-> 20, momentum |-> 25, volatility |-> 35,
                 trend_strength |-> 15, stochastic |-> 15]
        std  == [trend |-> 20, momentum |-> 25, volatility |-> 20,
                 trend_strength |-> 20, stochastic |-> 15]
    IN  [store EXCEPT
           !.regime_weights = [trending_strong |-> wide, trending_weak |-> wide,
                               ranging |-> std, ranging_high |-> wide],
           !.is_trained = TRUE]

\* The table test_adaptive_weights.main installs: the same weights, named.
test_default_tables(store) ==
    LET wide == [trend |-> 20, momentum |-> 25, volatility |-> 35,
                 trend_strength |-> 15, stochastic |-> 15, name |-> "volatility_aware"]
        std  == [trend |-> 20, momentum |-> 25, volatility |-> 20,
                 trend_strength |-> 20, stochastic |-> 15, name |-> "standard"]
    IN  [store EXCEPT
           !.regime_weights = [trending_strong |-> wide, trending_weak |-> wide,
                               ranging |-> std, ranging_high |-> wide],
           !.is_trained = TRUE]


\* The state at the top of a replay of the bar sequence d by simulator s.
ReplayInit(s, d) ==
    /\ sim = s
    /\ df = d
    /\ i = window_size
    /\ pc = "loop"
    /\ position = None
    /\ entry_price = 0
    /\ stop_loss = 0
    /\ take_profit = 0
    /\ trades = <<>>
    /\ equity = initial_capital
    /\ predictions = <<>>
    /\ result = Running
    /\ opened = 0
    /\ entry_bar = 0
    /\ StoreFresh
    /\ file = NoFile
    /\ call = None
    /\ ret = None

\* Every non-empty bar sequence of up to MaxBars closes.
TickerInit ==
    \E n \in 1..MaxBars : \E d \in [1..n -> Prices] : ReplayInit("ticker", d)

\* backtest_enhanced reads the closes of the bars from window_size on; the
\* warm-up bars before them only feed the snapshot, which is an input here,
\* and are held at one price.
EnhancedInit ==
    \E n \in 1..MaxBars : \E d \in [1..n -> Prices] :
        /\ \A k \in 1..n : k <= window_size => d[k] = 100
        /\ ReplayInit("enhanced", d)

\* ------------------------------------------------------ the level generators
\* rule_based_prediction_4h of predictor.py: the levels it returns with its
\* prediction (2% / 4% for Up, 5% / 5% for Down), numerators over 2000.
predictor_levels_4h(prediction, current_price) ==
    IF prediction = "Up"
    THEN [stop_loss |-> current_price * 1960, take_profit |-> current_price * 2080]
    ELSE [stop_loss |-> current_price * 2100, take_profit |-> current_price * 1900]

\* generate_trading_levels of enhanced_predictor_adaptive.py (price -+ ATR
\* multiples for both sides), numerators over 2000.
generate_trading_levels_adaptive(price, atr) ==
    [long_stop_loss |-> Scaled(price) - Scaled(atr) * 1,
     long_take_profit |-> Scaled(price) + Scaled(atr) * 2,
     short_stop_loss |-> Scaled(price) + Scaled(atr) * 1,
     short_take_profit |-> Scaled(price) - Scaled(atr) * 2]

\* ATR values (price units) and ATR percents (tenths of a percent, or NaN on a
\* window shorter than the ATR period) the level generators are called with.
AtrValues == {1, 2, 5}
AtrPercents == {NaN, 5, 10, 14, 20, 30}

LevelsInit ==
    /\ sim = "levels"
    /\ df = <<>>
    /\ i = 0
    /\ pc = "call"
    /\ position = None
    /\ entry_price = 0
    /\ stop_loss = 0
    /\ take_profit = 0
    /\ trades = <<>>
    /\ equity = initial_capital
    /\ predictions = <<>>
    /\ result = Running
    /\ opened = 0
    /\ entry_bar = 0
    /\ StoreFresh
    /\ file = NoFile
    /\ call \in [price : Prices, prediction : {"Up", "Down"},
                 atr : AtrValues, atr_percent : AtrPercents]
    /\ ret = None

\* One call of each level generator on the drawn arguments.
LevelsCall ==
    /\ sim = "levels"
    /\ pc = "call"
    /\ ret' = [predictor |-> predictor_levels_4h(call.prediction, call.price),
               enhanced |-> generate_trading_levels(call.price, call.prediction,
                                                    call.atr_percent),
               adaptive |-> generate_trading_levels_adaptive(call.price, call.atr)]
    /\ pc' = "done"
    /\ UNCHANGED <<sim, df, i, position, entry_price, stop_loss, take_profit,
                   trades, equity, predictions, result, opened, entry_bar,
                   storeVars, call>>


\* ------------------------------------ enhanced_predictor_adaptive.py: the engine
\* detect_volatility_regime: ATR percent below 1.0 / above 2.5.
detect_volatility_regime(features) ==
    IF Lt(features.atr_percent, 10) THEN "low"
    ELSE IF Gt(features.atr_percent, 25) THEN "high"
    ELSE "normal"

\* The signal the adaptive branch appends.
AdaptiveSignal(regime) ==
    CASE regime = "low" -> "Using adaptive weights (regime: low)"
      [] regime = "high" -> "Using adaptive weights (regime: high)"
      [] regime = "normal" -> "Using adaptive weights (regime: normal)"

\* enhanced_prediction_adaptive(features, optimizer, use_adaptive_weights);
\* optimizer is None or names the object whose state is store.  Of the signal
\* list only the weight-mode signal is kept.
enhanced_prediction_adaptive(features, optimizer, store, use_adaptive_weights) ==
    LET adaptive == use_adaptive_weights /\ optimizer # None
        weights == IF adaptive THEN get_adaptive_weights(store, features)
                   ELSE [c \in Categories |-> 0]
        signals == IF adaptive
                   THEN <<AdaptiveSignal(detect_volatility_regime(features))>>
                   ELSE <<>>
        c == Components(features)
        reported == [trend |-> DictGet(weights, "trend", 20),
                     momentum |-> DictGet(weights, "momentum", 25),
                     volatility |-> DictGet(weights, "volatility", 20),
                     trend_strength |-> DictGet(weights, "trend_strength", 20),
                     stochastic |-> DictGet(weights, "stochastic", 15)]
        final_score == IF adaptive /\ DOMAIN weights # {}
                       THEN WeightedScore(c, reported)
                       ELSE WeightedScore(c, StaticWeights)
    IN  [prediction |-> IF Bullish(final_score) THEN "LONG" ELSE "SHORT",
         score |-> final_score,
         confidence |-> Confidence(final_score),
         signals |-> signals,
         weights |-> reported,
         components |-> c]

\* -------------------------------- backtest_adaptive_weights.py: backtest_strategy
\* The default of backtest_strategy's lookback parameter.
lookback == 20

\* The scale of a trade's return: (exit - entry) / entry is held as its
\* multiple of ReturnUnit, which every price in Prices divides.
ReturnUnit == 19 * 2100

\* The length of historical_df = df.iloc[max(0, i - lookback):i].
HistoricalLen(k) == k - (IF k - lookback > 0 THEN k - lookback ELSE 0)

\* Snapshots the adaptive module's compute_enhanced_features yields on a
\* lookback-bar window: rolling(50) is NaN, bb_position is never NaN (0.5 is
\* substituted), the ewm-smoothed ADX and the RSI are NaN on a window without
\* movement.
StrategySnapshots ==
    {[slope |-> sl, sma_20 |-> 2, sma_50 |-> NaN,
      ema_12 |-> sl, ema_26 |-> 0, rsi |-> r,
      macd |-> sl, macd_signal |-> 0, macd_histogram |-> sl,
      bb_position |-> 50, atr_percent |-> 20, adx |-> adx,
      k_stoch |-> k, d_stoch |-> k] :
        <<sl, r, adx, k>> \in {<<1, 25, 35, 10>>, <<-1, 75, 25, 90>>,
                               <<-1, NaN, NaN, 50>>}}

\* The record one iteration appends (lines 82-109).
StrategyTrade(k, pred) ==
    LET current_price == Close(k)
        next_price == Close(k + 1)
        actual_direction == IF next_price > current_price THEN "LONG" ELSE "SHORT"
        trade_return ==
            IF pred.prediction = "LONG"
            THEN ((next_price - current_price) * ReturnUnit) \div current_price
            ELSE ((current_price - next_price) * ReturnUnit) \div current_price
    IN  [entry |-> current_price, exit |-> next_price,
         signal |-> pred.prediction, actual |-> actual_direction,
         correct |-> (pred.prediction = actual_direction),
         return |-> trade_return, confidence |-> pred.confidence]

\* The warm-up bars are held at one price, as in EnhancedInit; the bars from
\* index lookback on are free.  equity holds total_return, predictions the
\* outcomes counted in correct / incorrect.
StrategyInit ==
    \E n \in 0..(MaxBars - window_size) : \E tail \in [1..n -> Prices] :
      \E use_adaptive \in BOOLEAN :
        /\ sim = "strategy"
        /\ df = [k \in 1..lookback |-> 100] \o tail
        /\ i = lookback
        /\ pc = "start"
        /\ position = None
        /\ entry_price = 0
        /\ stop_loss = 0
        /\ take_profit = 0
        /\ trades = <<>>
        /\ equity = 0
        /\ predictions = <<>>
        /\ result = Running
        /\ opened = 0
        /\ entry_bar = 0
        /\ StoreFresh
        /\ file = NoFile
        /\ call = [optimizer |-> IF use_adaptive THEN "optimizer" ELSE None,
                   use_adaptive |-> use_adaptive]
        /\ ret = None

\* The length test before the loop (lines 48-49).
StrategyStart ==
    /\ sim = "strategy"
    /\ pc = "start"
    /\ IF Len(df) < lookback + 1
       THEN result' = Returned(None) /\ pc' = "done"
       ELSE result' = result /\ pc' = "loop"
    /\ UNCHANGED <<sim, df, i, position, entry_price, stop_loss, take_profit,
                   trades, equity, predictions, opened, entry_bar, storeVars,
                   callVars>>

\* One iteration of backtest_strategy's loop that runs to its end (lines
\* 59-111); the snapshot of the window is the input.  The levels of line 79 are
\* computed and dropped.
StrategyBar ==
    /\ sim = "strategy"
    /\ pc = "loop"
    /\ i < Len(df) - 1
    /\ IF HistoricalLen(i) < 5
       THEN UNCHANGED <<trades, equity, predictions>>
       ELSE \E features \in StrategySnapshots :
              LET pred == enhanced_prediction_adaptive(features, call.optimizer,
                                                       Store, call.use_adaptive)
                  t == StrategyTrade(i, pred)
              IN  /\ predictions' = Append(predictions,
                                           [bar |-> i, predicted |-> t.signal,
                                            actual |-> t.actual,
                                            correct |-> t.correct])
                  /\ trades' = Append(trades, t)
                  /\ equity' = equity + t.return
    /\ i' = i + 1
    /\ ret' = None
    /\ UNCHANGED <<sim, df, pc, position, entry_price, stop_loss, take_profit,
                   result, opened, entry_bar, storeVars, call>>

\* An iteration in which compute_enhanced_features or the engine raises: the
\* handler of lines 113-114 goes on to the next bar.
StrategyBarRaises ==
    /\ sim = "strategy"
    /\ pc = "loop"
    /\ i < Len(df) - 1
    /\ HistoricalLen(i) >= 5
    /\ i' = i + 1
    /\ ret' = "ValueError"
    /\ UNCHANGED <<sim, df, pc, position, entry_price, stop_loss, take_profit,
                   trades, equity, predictions, result, opened, entry_bar,
                   storeVars, call>>

\* The metrics dictionary of lines 119-146 (avg_win, avg_loss and the frame of
\* trades are left out); accuracy and win_rate are reduced fractions.
StrategySummary(trs, preds, total_return) ==
    LET correct == Cardinality({n \in 1..Len(preds) : preds[n].correct})
        win_count == Cardinality({n \in 1..Len(trs) : trs[n].correct})
        Return(t) == t.return
        returns == Column(trs, Return)
        losing_trades == {n \in 1..Len(trs) : returns[n] <= 0}
    IN  [outcome |-> "metrics",
         accuracy |-> IF Len(preds) > 0 THEN Ratio(correct * 100, Len(preds))
                                        ELSE Ratio(0, 1),
         win_rate |-> IF Len(trs) > 0 THEN Ratio(win_count * 100, Len(trs))
                                      ELSE Ratio(0, 1),
         total_return |-> total_return * 100,
         profit_factor |-> IF losing_trades # {} /\ SumNonPositive(returns) # 0
                           THEN Finite(SumPositive(returns),
                                       Abs(SumNonPositive(returns)))
                           ELSE Finite(0, 1),
         num_trades |-> Len(trs),
         winning_trades |-> win_count,
         losing_trades |-> Len(trs) - win_count]

\* A bug StrategyMetrics could have: the `if not trades` test left out.
StrategyMetricsUnguarded(trs, preds, total_return) ==
    StrategySummary(trs, preds, total_return)

\* What backtest_strategy returns after the loop (lines 116-146): None without
\* trades.
StrategyMetrics(trs, preds, total_return) ==
    IF Len(trs) = 0 THEN Returned(None)
    ELSE StrategySummary(trs, preds, total_return)

StrategyFinish ==
    /\ sim = "strategy"
    /\ pc = "loop"
    /\ i >= Len(df) - 1
    /\ result' = StrategyMetrics(trades, predictions, equity)
    /\ pc' = "done"
    /\ UNCHANGED <<sim, df, i, position, entry_price, stop_loss, take_profit,
                   trades, equity, predictions, opened, entry_bar, storeVars,
                   callVars>>

ReplayNext ==
    \/ TickerBar \/ TickerBarRaises \/ TickerFinish
    \/ EnhancedBar \/ EnhancedBarRaises \/ EnhancedFinish
    \/ StrategyStart \/ StrategyBar \/ StrategyBarRaises \/ StrategyFinish
    \/ LevelsCall

SpecReplay ==
    (TickerInit \/ EnhancedInit \/ StrategyInit \/ LevelsInit) /\ [][ReplayNext]_vars

\* The replay variables of a run that replays nothing.
NoReplay(s) ==
    /\ sim = s
    /\ df = <<>>
    /\ i = 0
    /\ position = None
    /\ entry_price = 0
    /\ stop_loss = 0
    /\ take_profit = 0
    /\ trades = <<>>
    /\ equity = initial_capital
    /\ predictions = <<>>
    /\ result = Running
    /\ opened = 0
    /\ entry_bar = 0

\* Snapshots the engines are called with: every indicator takes values on each
\* side of the thresholds the engines compare it with, values outside its
\* nominal range (bb_position -0.5 and 1.5, ADX -10 and 50) and NaN where a
\* short window leaves it undefined.
Snapshots ==
    {[slope |-> sl, sma_20 |-> sma[1], sma_50 |-> sma[2],
      ema_12 |-> e, ema_26 |-> 0, rsi |-> r,
      macd |-> h, macd_signal |-> 0, macd_histogram |-> h,
      bb_position |-> bb, atr_percent |-> atr, adx |-> adx,
      k_stoch |-> st[1], d_stoch |-> st[2]] :
        sl \in {-1, 1}, sma \in {<<2, 1>>, <<NaN, NaN>>}, e \in {-1, 1},
        r \in {NaN, 25, 40, 75}, h \in {-1, 1},
        bb \in {NaN, -50, 50, 150}, atr \in {NaN, 5, 40},
        adx \in {NaN, -10, 25, 35, 50},
        st \in {<<NaN, NaN>>, <<10, 5>>, <<50, 50>>, <<90, 95>>}}

\* Snapshots with every indicator defined, on and next to each threshold the
\* engines compare it with (RSI 30, 50, 70; bb_position 0.2, 0.8; ATR percent
\* 1.0, 3.0; ADX 0 and 40; %K 20, 80 and %D; equal averages), one category
\* varying at a time around a snapshot in the middle of every range.
MidSnapshot ==
    [slope |-> 1, sma_20 |-> 2, sma_50 |-> 1, ema_12 |-> 1, ema_26 |-> 0,
     rsi |-> 60, macd |-> 0, macd_signal |-> 0, macd_histogram |-> 0,
     bb_position |-> 50, atr_percent |-> 20, adx |-> 25,
     k_stoch |-> 50, d_stoch |-> 50]

ThresholdSnapshots ==
    {[MidSnapshot EXCEPT !.slope = sl, !.sma_20 = sma, !.sma_50 = 2,
                         !.ema_12 = e, !.ema_26 = 0] :
        sl \in {-1, 0, 1}, sma \in {1, 2, 3}, e \in {-1, 0, 1}}
    \cup
    {[MidSnapshot EXCEPT !.rsi = r, !.macd_histogram = h, !.macd = m] :
        r \in {29, 30, 31, 49, 50, 51, 69, 70, 71},
        h \in {-1, 0, 1}, m \in {-1, 0, 1}}
    \cup
    {[MidSnapshot EXCEPT !.bb_position = bb, !.atr_percent = atr] :
        bb \in {19, 20, 21, 79, 80, 81}, atr \in {9, 10, 11, 29, 30, 31}}
    \cup
    {[MidSnapshot EXCEPT !.adx = adx] : adx \in {-1, 0, 1, 20, 39, 40, 41}}
    \cup
    {[MidSnapshot EXCEPT !.k_stoch = k, !.d_stoch = k + dd] :
        k \in {19, 20, 21, 79, 80, 81}, dd \in {-1, 0, 1}}

\* Three training samples on which the candidates disagree (none of them scores
\* 0.5 under any candidate): under test_weight_combination's score only
\* momentum_heavy, volatility_aware and balanced rise above 0.5 on the first,
\* only volatility_aware on the second, only adx_focused on the third.
CorpusSnapshots ==
    {[slope |-> -1, sma_20 |-> 2, sma_50 |-> 1, ema_12 |-> 1, ema_26 |-> 0,
      rsi |-> r, macd |-> 1, macd_signal |-> 0, macd_histogram |-> 1,
      bb_position |-> bb, atr_percent |-> 20, adx |-> adx,
      k_stoch |-> k, d_stoch |-> k] :
        <<r, bb, adx, k>> \in {<<25, 50, -10, 90>>, <<40, 25, 10, 10>>,
                               <<40, -50, 35, 50>>}}

\* --------------------------------------------------- the weight store's life
\* Corpora of up to MaxCorpus samples.
MaxCorpus == 2

SeqsUpTo(S, n) == UNION {[1..m -> S] : m \in 0..n}

\* A sample's outcome: {'actual': 0} or {'actual': 1}.
Actuals == {[actual |-> 0], [actual |-> 1]}

\* One snapshot for each bucket get_adaptive_weights reads: ADX above 30,
\* above 20, and neither with ATR percent up to 2.5 and above it.
RegimeSnapshots ==
    {[slope |-> 1, sma_20 |-> NaN, sma_50 |-> NaN, ema_12 |-> 1, ema_26 |-> 0,
      rsi |-> NaN, macd |-> 1, macd_signal |-> 0, macd_histogram |-> 1,
      bb_position |-> NaN, atr_percent |-> atr, adx |-> adx,
      k_stoch |-> NaN, d_stoch |-> NaN] :
        <<adx, atr>> \in {<<35, 25>>, <<30, 26>>, <<20, 25>>, <<NaN, 26>>}}

\* The samples train is given: the first two of CorpusSnapshots' three.
TrainingSnapshots == {s \in CorpusSnapshots : s.adx <= 10}

\* call and ret hold the last call and what it returned or raised; train and
\* the constructor leave NoCall.
NoCall == [op |-> None]

\* A fresh RegimeAdaptiveWeights and no weights file.
StoreInit ==
    /\ NoReplay("store")
    /\ pc = "idle"
    /\ StoreFresh
    /\ file = NoFile
    /\ call = NoCall
    /\ ret = None

\* optimizer.train(features_list, predictions_list); the two lists are
\* independent arguments and may differ in length.
Train ==
    /\ sim = "store"
    /\ \E features_list \in SeqsUpTo(TrainingSnapshots, MaxCorpus) :
       \E predictions_list \in SeqsUpTo(Actuals, MaxCorpus) :
       \E trained \in {train(Store, features_list, predictions_list)} :
          StoreBecomes(trained)
    /\ call' = NoCall
    /\ ret' = None
    /\ UNCHANGED <<replayVars, file>>

\* optimizer.get_adaptive_weights(features)
GetWeights ==
    /\ sim = "store"
    /\ \E features \in RegimeSnapshots :
         /\ call' = [op |-> "get_adaptive_weights", features |-> features]
         /\ ret' = get_adaptive_weights(Store, features)
    /\ UNCHANGED <<replayVars, storeVars>>

\* The dict save_weights pickles: the three attributes under their names.
pickled(store) ==
    [regime_weights |-> store.regime_weights,
     tested_combinations |-> store.tested_combinations,
     is_trained |-> store.is_trained]

\* A reader that takes the tables and leaves the flag unset.
unpickled_unflagged(data) ==
    [regime_weights |-> data.regime_weights,
     tested_combinations |-> data.tested_combinations,
     is_trained |-> FALSE]

\* What load_weights reads back from the pickled dict, key by key.
unpickled(data) ==
    [regime_weights |-> data.regime_weights,
     tested_combinations |-> data.tested_combinations,
     is_trained |-> data.is_trained]

\* RegimeAdaptiveWeights(): a caller starts over with a fresh optimizer, the
\* weights file stays.
NewOptimizer ==
    /\ sim = "store"
    /\ StoreBecomes(NewStore)
    /\ call' = NoCall
    /\ ret' = None
    /\ UNCHANGED <<replayVars, file>>

\* optimizer.save_weights(filepath): the three attributes are pickled.
save_weights ==
    /\ sim = "store"
    /\ file' = [exists |-> TRUE, data |-> pickled(Store)]
    /\ call' = [op |-> "save_weights"]
    /\ ret' = None
    /\ UNCHANGED <<replayVars, regime_weights, tested_combinations, is_trained>>

\* optimizer.load_weights(filepath): open() raises on a missing file and the
\* object is left as it was; else the three attributes are replaced.
load_weights ==
    /\ sim = "store"
    /\ IF file.exists
       THEN /\ StoreBecomes(unpickled(file.data))
            /\ call' = [op |-> "load_weights"]
            /\ ret' = None
       ELSE /\ UNCHANGED <<regime_weights, tested_combinations, is_trained>>
            /\ call' = [op |-> "load_weights"]
            /\ ret' = "FileNotFoundError"
    /\ UNCHANGED <<replayVars, file>>

StoreNext == Train \/ GetWeights \/ save_weights \/ load_weights \/ NewOptimizer

SpecStore == StoreInit /\ [][StoreNext]_vars

\* ------------------------------------------------------ one call of the engines
\* Corpora for the stores the engine is called with: between them they bring
\* each of the six candidates into a bucket.
ScoreCorpora ==
    {<<>>} \cup {<<[features |-> s, actual |-> 1]>> : s \in CorpusSnapshots}

\* The optimizers a caller in this repository holds: a fresh one, one trained
\* by train_regime_weights.py (or loaded from the file it saved), one with the
\* table a script installs when it is given no weights file.
ScoreStores ==
    {NewStore, backtest_default_tables(NewStore), test_default_tables(NewStore)}
    \cup {train(NewStore, [n \in 1..Len(c) |-> c[n].features],
                [n \in 1..Len(c) |-> [actual |-> c[n].actual]]) : c \in ScoreCorpora}

\* Optimizers loaded from a weights file that carries the flag of a trained
\* store but not all of its buckets: one with no bucket at all, one whose
\* trending_strong bucket is an empty dict and whose trending_weak and
\* ranging_high buckets are missing.
TrimmedStores ==
    LET trained == train(NewStore, <<>>, <<>>)
    IN  {[trained EXCEPT !.regime_weights = <<>>],
         [trained EXCEPT !.regime_weights =
              [trending_strong |-> <<>>, ranging |-> trained.regime_weights.ranging]]}

\* The engines' arguments: a snapshot, the optimizer (None or an object in one
\* of the states above) and the use_adaptive_weights flag.
ScoreInit ==
    /\ NoReplay("score")
    /\ pc = "call"
    /\ file = NoFile
    /\ ret = None
    /\ \E features \in Snapshots \cup ThresholdSnapshots :
         \/ /\ StoreFresh
            /\ call \in [features : {features}, optimizer : {None, "optimizer"},
                         use_adaptive_weights : BOOLEAN]
         \/ /\ \E s \in (ScoreStores \ {NewStore}) \cup TrimmedStores : StoreIs(s)
            /\ call = [features |-> features, optimizer |-> "optimizer",
                       use_adaptive_weights |-> TRUE]

\* enhanced_prediction(features) and
\* enhanced_prediction_adaptive(features, optimizer, use_adaptive_weights).
Predict ==
    /\ sim = "score"
    /\ pc = "call"
    /\ ret' = [static |-> enhanced_prediction(call.features),
               adaptive |-> enhanced_prediction_adaptive(
                                call.features, call.optimizer, Store,
                                call.use_adaptive_weights)]
    /\ pc' = "done"
    /\ UNCHANGED <<sim, df, i, position, entry_price, stop_loss, take_profit,
                   trades, equity, predictions, result, opened, entry_bar,
                   storeVars, call>>

ScoreNext == Predict

SpecScore == ScoreInit /\ [][ScoreNext]_vars

\* ------------------------------------------------- one call of the classifier
\* Snapshots on and around detect_market_regime's thresholds (ADX 20 and 30,
\* ATR percent 2.5), with the two other indicators the method reads, RSI and
\* bb_position, varying as well.
BoundarySnapshots ==
    {[slope |-> 1, sma_20 |-> NaN, sma_50 |-> NaN, ema_12 |-> 1, ema_26 |-> 0,
      rsi |-> rsi, macd |-> 1, macd_signal |-> 0, macd_histogram |-> 1,
      bb_position |-> bb, atr_percent |-> atr, adx |-> adx,
      k_stoch |-> NaN, d_stoch |-> NaN] :
        adx \in {NaN, 20, 25, 30, 35}, atr \in {NaN, 25, 26},
        rsi \in {NaN, 25}, bb \in {NaN, 150}}

\* optimizer.detect_market_regime(features) on an optimizer in any of the
\* states a caller holds.
RegimeInit ==
    /\ NoReplay("regime")
    /\ pc = "call"
    /\ file = NoFile
    /\ ret = None
    /\ \E s \in ScoreStores : StoreIs(s)
    /\ \E features \in BoundarySnapshots :
          call = [op |-> "detect_market_regime", features |-> features]

DetectRegime ==
    /\ sim = "regime"
    /\ pc = "call"
    /\ ret' = detect_market_regime(call.features)
    /\ pc' = "done"
    /\ UNCHANGED <<sim, df, i, position, entry_price, stop_loss, take_profit,
                   trades, equity, predictions, result, opened, entry_bar,
                   storeVars, call>>

RegimeNext == DetectRegime

SpecRegime == RegimeInit /\ [][RegimeNext]_vars

\* ------------------------- trade_with_ibkr.py and predict_ibkr_live.py: live calls
\* str.upper() on the strings a direction can be.
Upper(s) ==
    CASE s = "long" -> "LONG"
      [] s = "short" -> "SHORT"
      [] s = "neutral" -> "NEUTRAL"
      [] OTHER -> s

\* RiskManager(account_size = 10000, max_risk_percent = 2.0).max_risk_per_trade
max_risk_per_trade == (10000 * 2) \div 100

\* RiskManager.calculate_position_size
calculate_position_size(entry, stop) ==
    LET risk_per_share == Abs(entry - stop)
        shares == max_risk_per_trade \div risk_per_share
    IN  IF risk_per_share = 0 THEN 0
        ELSE IF shares > 1 THEN shares ELSE 1

\* The stop and the target both live callers compute from the direction they
\* read: entry -/+ atr and entry +/- 2 * atr.
LiveLevels(direction, entry, atr) ==
    [stop_loss |-> IF direction = "LONG" THEN entry - atr ELSE entry + atr,
     take_profit |-> IF direction = "LONG" THEN entry + atr * 2
                     ELSE entry - atr * 2]

\* direction = prediction.get('direction', 'NEUTRAL').upper()
LiveDirection(prediction) == Upper(DictGet(prediction, "direction", "NEUTRAL"))

\* IBKRLivePredictor._get_signal_strength
get_signal_strength(confidence) ==
    IF confidence >= ConfidencePct(70) THEN "STRONG"
    ELSE IF confidence >= ConfidencePct(50) THEN "MODERATE"
    ELSE "WEAK"

\* IBKRLivePredictor._get_recommendation
get_recommendation(direction, confidence, rsi) ==
    IF Lt(confidence, ConfidencePct(40)) THEN "NO TRADE"
    ELSE IF direction = "LONG"
         THEN IF Gt(rsi, 70) THEN "WAIT" ELSE IF Lt(rsi, 30) THEN "BUY SIGNAL" ELSE "BUY"
    ELSE IF direction = "SHORT"
         THEN IF Lt(rsi, 30) THEN "WAIT" ELSE IF Gt(rsi, 70) THEN "SELL SIGNAL" ELSE "SELL"
    ELSE "NEUTRAL"

\* The ATR, in price units, of the fetched bars.
LiveAtrs == {0, 1, 2}

\* Snapshots compute_enhanced_features yields on the fetched bars: those of a
\* window shorter than 50 bars (rolling(50) is NaN) and those of a longer one,
\* with every indicator defined.
LiveSnapshots == StrategySnapshots \cup CorpusSnapshots \cup {MidSnapshot}

\* The thresholds analyze_and_trade is called with, in percent; 60 is the
\* default.
MinConfidences == {0, 20, 60}

\* The numbers of fetched bars on both sides of the 20-bar minimum.
LiveBars == {19, 20}

\* A bot or a live predictor after construction (a fresh optimizer, or the one
\* load_weights brought from the weights file) and the arguments and the
\* fetched data of one call: the snapshot of the bars, their last close, their
\* ATR, their number, and whether the connection was made.
LiveInit ==
    /\ NoReplay("live")
    /\ pc = "call"
    /\ file = NoFile
    /\ ret = None
    /\ \E s \in ScoreStores : StoreIs(s)
    /\ call \in [features : LiveSnapshots, price : Prices, atr : LiveAtrs,
                 bars : LiveBars, connected : BOOLEAN,
                 min_confidence : MinConfidences, dry_run : BOOLEAN]

\* IBKRTradingBot.analyze_and_trade: the dict it returns; trade_result.action
\* is the action of the bracket order it places through the executor.
analyze_and_trade ==
    /\ sim = "live"
    /\ pc = "call"
    /\ LET prediction == enhanced_prediction_adaptive(
                             call.features, "optimizer", Store, TRUE)
           direction == LiveDirection(prediction)
           confidence == DictGet(prediction, "confidence", 0)
           entry == call.price
           levels == LiveLevels(direction, entry, call.atr)
           quantity == calculate_position_size(entry, levels.stop_loss)
           trade_result ==
               IF call.dry_run
               THEN [success |-> TRUE, dry_run |-> TRUE, placed |-> FALSE,
                     action |-> None]
               ELSE [success |-> TRUE, dry_run |-> FALSE, placed |-> TRUE,
                     action |-> IF direction = "LONG" THEN "BUY" ELSE "SELL"]
       IN  ret' = IF ~call.connected
                  THEN [op |-> "analyze_and_trade", success |-> FALSE,
                        message |-> "IBKR connection failed"]
                  ELSE IF call.bars < 20
                  THEN [op |-> "analyze_and_trade", success |-> FALSE,
                        message |-> "Insufficient data"]
                  ELSE IF confidence < ConfidencePct(call.min_confidence)
                  THEN [op |-> "analyze_and_trade", success |-> FALSE,
                        message |-> "below threshold",
                        confidence |-> confidence]
                  ELSE [op |-> "analyze_and_trade", success |-> TRUE,
                        direction |-> direction, confidence |-> confidence,
                        entry |-> entry, stop_loss |-> levels.stop_loss,
                        take_profit |-> levels.take_profit,
                        quantity |-> quantity, trade_result |-> trade_result]
    /\ pc' = "done"
    /\ UNCHANGED <<sim, df, i, position, entry_price, stop_loss, take_profit,
                   trades, equity, predictions, result, opened, entry_bar,
                   storeVars, call>>

\* IBKRLivePredictor.predict_live: the dict it returns.
predict_live ==
    /\ sim = "live"
    /\ pc = "call"
    /\ LET prediction == enhanced_prediction_adaptive(
                             call.features, "optimizer", Store, TRUE)
           direction == LiveDirection(prediction)
           confidence == DictGet(prediction, "confidence", 0)
           entry == call.price
           levels == LiveLevels(direction, entry, call.atr)
           risk == Abs(entry - levels.stop_loss)
           reward == Abs(levels.take_profit - entry)
       IN  ret' = IF ~call.connected
                  THEN [op |-> "predict_live", success |-> FALSE,
                        error |-> "Failed to connect to IBKR"]
                  ELSE IF call.bars < 20
                  THEN [op |-> "predict_live", success |-> FALSE,
                        error |-> "Insufficient data"]
                  ELSE [op |-> "predict_live", success |-> TRUE,
                        direction |-> direction, confidence |-> confidence,
                        signal_strength |-> get_signal_strength(confidence),
                        entry |-> entry, stop_loss |-> levels.stop_loss,
                        take_profit |-> levels.take_profit,
                        risk_reward_ratio |-> IF risk > 0 THEN reward \div risk ELSE 0,
                        recommendation |-> get_recommendation(
                            direction, confidence, call.features.rsi)]
    /\ pc' = "done"
    /\ UNCHANGED <<sim, df, i, position, entry_price, stop_loss, take_profit,
                   trades, equity, predictions, result, opened, entry_bar,
                   storeVars, call>>

LiveNext == analyze_and_trade \/ predict_live

SpecLive == LiveInit /\ [][LiveNext]_vars

\* ================================================================== claims
RECURSIVE SumPnL(_)
SumPnL(trs) == IF Len(trs) = 0 THEN 0 ELSE trs[1].PnL + SumPnL(Tail(trs))

Replaying == sim \in {"ticker", "enhanced"}

\* C1: in backtest_ticker and backtest_enhanced at most one position is open at
\* any point of the replay: positions are opened one at a time (the count of
\* opened positions is the count of recorded trades, plus one exactly while a
\* position is open), and each trade's entry bar is not earlier than the
\* previous trade's exit bar.
C1_OnePositionNoOverlap ==
    Replaying =>
      /\ opened - Len(trades) \in {0, 1}
      /\ (pc = "loop" => (position = None <=> opened = Len(trades)))
      /\ \A n \in 1..Len(trades) :
           /\ trades[n].EntryBar <= trades[n].ExitBar
           /\ (n > 1 => trades[n].EntryBar >= trades[n - 1].ExitBar)
      /\ (pc = "loop" /\ position # None /\ Len(trades) > 0)
           => entry_bar >= trades[Len(trades)].ExitBar

\* C1's case: backtest_enhanced has closed a second position.
C1_Witness == sim = "enhanced" /\ Len(trades) = 2

\* C2: in backtest_ticker a position still open after the last bar is closed at
\* the final bar's close as exactly one "End of Period" record, the last of the
\* trade sequence, and its PnL is part of equity; with no position open, no
\* such record exists.
C2_EndOfPeriodClose ==
    (sim = "ticker" /\ pc = "done") =>
      LET eop == {n \in 1..Len(trades) : trades[n].Reason = "End of Period"}
      IN  /\ equity = initial_capital + SumPnL(trades)
          /\ IF position # None
             THEN /\ eop = {Len(trades)}
                  /\ Len(trades) > 0
                  /\ LET t == trades[Len(trades)]
                     IN  /\ t.Exit = Close(Len(df) - 1)
                         /\ t.Entry = entry_price
                         /\ t.Type = position
                         /\ t.PnL = IF position = "LONG" THEN t.Exit - t.Entry
                                                           ELSE t.Entry - t.Exit
             ELSE eop = {}

\* C2's case: backtest_ticker returned after force-closing a position that
\* followed an earlier trade, at a gain or a loss.
C2_Witness ==
    /\ sim = "ticker" /\ pc = "done" /\ position # None
    /\ Len(trades) >= 2
    /\ trades[Len(trades)].PnL # 0

\* C3 (as claimed): when backtest_enhanced returns, every position it opened
\* has become a trade record.
C3_EnhancedEveryPositionRecorded ==
    (sim = "enhanced" /\ pc = "done") => opened = Len(trades)

\* C4 (as claimed): a Stop Loss / Take Profit trade is recorded at the level,
\* with the PnL of the level.
C4_ExitAtLevel ==
    Replaying =>
      \A n \in 1..Len(trades) :
        LET t == trades[n]
            level == IF t.Reason = "Stop Loss" THEN t.Stop ELSE t.Target
        IN  t.Reason \in {"Stop Loss", "Take Profit"} =>
              /\ Scaled(t.Exit) = level
              /\ Scaled(t.PnL) = IF t.Type = "LONG" THEN level - Scaled(t.Entry)
                                                    ELSE Scaled(t.Entry) - level

\* C4 (amended): a Stop Loss / Take Profit trade is recorded at the triggering
\* bar's close, which is at or beyond the level (LONG: close <= stop_loss,
\* close >= take_profit; SHORT inverted), with the PnL of that close.
C4_ExitAtTriggeringClose ==
    Replaying =>
      \A n \in 1..Len(trades) :
        LET t == trades[n]
        IN  t.Reason \in {"Stop Loss", "Take Profit"} =>
              /\ t.Exit = Close(t.ExitBar)
              /\ t.PnL = IF t.Type = "LONG" THEN t.Exit - t.Entry ELSE t.Entry - t.Exit
              /\ (t.Type = "LONG" /\ t.Reason = "Stop Loss") => Scaled(t.Exit) <= t.Stop
              /\ (t.Type = "LONG" /\ t.Reason = "Take Profit") => Scaled(t.Exit) >= t.Target
              /\ (t.Type = "SHORT" /\ t.Reason = "Stop Loss") => Scaled(t.Exit) >= t.Stop
              /\ (t.Type = "SHORT" /\ t.Reason = "Take Profit") => Scaled(t.Exit) <= t.Target

\* C4's case: a LONG stop exit recorded strictly below its stop_loss, followed
\* by a target exit.
C4_Witness ==
    /\ Replaying
    /\ Len(trades) >= 2
    /\ trades[1].Type = "LONG" /\ trades[1].Reason = "Stop Loss"
    /\ Scaled(trades[1].Exit) < trades[1].Stop
    /\ trades[2].Reason = "Take Profit"

\* C5 (as claimed): each opened position has produced exactly one trade record
\* when the function returns, every Stop Loss record has PnL < 0 and every Take
\* Profit record has PnL > 0.
C5_OneRecordPerPositionSignedPnL ==
    (Replaying /\ pc = "done") =>
      /\ opened = Len(trades)
      /\ \A n \in 1..Len(trades) :
           /\ trades[n].Reason = "Stop Loss" => trades[n].PnL < 0
           /\ trades[n].Reason = "Take Profit" => trades[n].PnL > 0

\* Whether the levels of a position entered at `entry` (a price) lie on the right
\* sides with the target `num`/`den` times as far from the entry as the stop.
RiskReward(side, entry, sl, tp, num, den) ==
    IF side = "LONG"
    THEN /\ sl < Scaled(entry) /\ tp > Scaled(entry)
         /\ (tp - Scaled(entry)) * den = (Scaled(entry) - sl) * num
    ELSE /\ sl > Scaled(entry) /\ tp < Scaled(entry)
         /\ (Scaled(entry) - tp) * den = (sl - Scaled(entry)) * num

Side(prediction) == IF prediction = "Up" THEN "LONG" ELSE "SHORT"

AdaptiveMode == call.use_adaptive_weights /\ call.optimizer # None

UsedWeights ==
    IF AdaptiveMode THEN get_adaptive_weights(Store, call.features)
    ELSE StaticWeights

CategoryWeights(combo) ==
    [trend |-> combo.trend, momentum |-> combo.momentum,
     volatility |-> combo.volatility, trend_strength |-> combo.trend_strength,
     stochastic |-> combo.stochastic]

CatalogueWeights ==
    {CategoryWeights(generate_weight_combinations[n]) :
        n \in 1..Len(generate_weight_combinations)}

InUnit(x) == 0 <= x /\ x <= Full

Predicted == sim = "score" /\ pc = "done"

\* C7: for every snapshot, extremes and undefined indicators included, each of
\* the five sub-scores of enhanced_prediction and of enhanced_prediction_adaptive
\* lies in [0, 1], and the final score lies in [0, 1] whenever the weights are
\* the static defaults or one of the six catalogue candidates.
C7_SubScoresAndScoreInUnitRange ==
    Predicted =>
        /\ \A k \in Categories :
              /\ InUnit(ret.static.weights[k])
              /\ InUnit(ret.adaptive.components[k])
        /\ 0 <= ret.static.score /\ ret.static.score <= Full * 100
        /\ UsedWeights \in {StaticWeights} \cup CatalogueWeights =>
              0 <= ret.adaptive.score /\ ret.adaptive.score <= Full * 100

\* A snapshot beyond the nominal ranges (ADX 50, bb_position 1.5, momentum
\* votes adding up to 3) scored adaptively with a candidate other than the
\* standard one.
C7_Witness ==
    /\ Predicted
    /\ call.features.adx = 50
    /\ call.features.bb_position = 150
    /\ MomentumScore(call.features) = 3
    /\ AdaptiveMode
    /\ UsedWeights \in CatalogueWeights \ {StaticWeights}
    /\ ret.adaptive.components.momentum = Full

\* C8: every prediction of enhanced_prediction_adaptive, under the weights of an
\* untrained, a trained or loaded store or of a store holding the table a
\* script installs, has confidence |score - 0.5| * 200 within [0, 100], and 0
\* at score 0.5.
C8_ConfidenceWithinHundred ==
    Predicted =>
        /\ ret.adaptive.confidence = Abs(ret.adaptive.score - Half)
        /\ 0 <= ret.adaptive.confidence
        /\ ret.adaptive.confidence <= ConfidencePct(100)
        /\ ret.adaptive.score = Half => ret.adaptive.confidence = 0

ValidDistribution(w) ==
    /\ DOMAIN w = Categories
    /\ \A k \in Categories : w[k] >= 0
    /\ w.trend + w.momentum + w.volatility + w.trend_strength + w.stochastic = 100

\* C10: in every state of a store reached through __init__, train (on any
\* corpus, empty or with lists of different lengths included), save_weights and
\* load_weights, get_adaptive_weights returns for every snapshot exactly the
\* five category keys with non-negative values summing to 1.0; each of the six
\* catalogue candidates sums to 1.0.
C10_ReturnedWeightsAreDistributions ==
    sim = "store" =>
        /\ Len(generate_weight_combinations) = 6
        /\ \A n \in 1..Len(generate_weight_combinations) :
              ValidDistribution(CategoryWeights(generate_weight_combinations[n]))
        /\ \A features \in RegimeSnapshots :
              ValidDistribution(get_adaptive_weights(Store, features))
        /\ call.op = "get_adaptive_weights" => ValidDistribution(ret)

\* A trained store, saved to the file, returns a candidate other than the
\* standard one.
C10_Witness ==
    /\ sim = "store"
    /\ is_trained
    /\ file.exists
    /\ file.data.is_trained
    /\ call.op = "get_adaptive_weights"
    /\ ret \in CatalogueWeights \ {StaticWeights}

\* ---------------------------------------------------------------- C11 .. C20
\* A store whose flag is set though nothing was ever measured: the table came
\* from a script's main, not from train.
ScriptInstalled == is_trained /\ DOMAIN tested_combinations = {}

Buckets == {"trending_strong", "trending_weak", "ranging", "ranging_high"}

\* C11: the tables test_adaptive_weights.main and backtest_adaptive_weights.main
\* install when no weights file is given hold, in each of the four buckets, five
\* non-negative category weights summing to 1.0.
C11_ScriptTablesAreDistributions ==
    (sim = "score" /\ ScriptInstalled) =>
        /\ DOMAIN regime_weights = Buckets
        /\ \A b \in Buckets : ValidDistribution(CategoryWeights(regime_weights[b]))

\* The label the classifier's rule prescribes for (adx, atr_percent): the trend
\* part from ADX, the volatility part from ATR percent, joined.
TrendPart(adx) ==
    IF adx # NaN /\ adx > 30 THEN "trending_strong"
    ELSE IF adx # NaN /\ adx > 20 THEN "trending_weak"
    ELSE "ranging"

VolPart(atr_percent) ==
    IF atr_percent # NaN /\ atr_percent > 25 THEN "high_vol" ELSE "low_vol"

CrossLabel(adx, atr_percent) ==
    LET t == TrendPart(adx)
        v == VolPart(atr_percent)
    IN  CASE t = "trending_strong" /\ v = "high_vol" -> "trending_strong_high_vol"
          [] t = "trending_strong" /\ v = "low_vol" -> "trending_strong_low_vol"
          [] t = "trending_weak" /\ v = "high_vol" -> "trending_weak_high_vol"
          [] t = "trending_weak" /\ v = "low_vol" -> "trending_weak_low_vol"
          [] t = "ranging" /\ v = "high_vol" -> "ranging_high_vol"
          [] t = "ranging" /\ v = "low_vol" -> "ranging_low_vol"

SelectedBucket(features) ==
    IF TrendPart(features.adx) = "trending_strong" THEN "trending_strong"
    ELSE IF TrendPart(features.adx) = "trending_weak" THEN "trending_weak"
    ELSE IF VolPart(features.atr_percent) = "high_vol" THEN "ranging_high"
    ELSE "ranging"

BucketMissing(features) ==
    SelectedBucket(features) \notin DOMAIN regime_weights

BucketEmpty(features) ==
    /\ SelectedBucket(features) \in DOMAIN regime_weights
    /\ DOMAIN regime_weights[SelectedBucket(features)] = {}

\* C13: from an untrained store, and from a store whose bucket for the
\* snapshot's regime is absent or empty, get_adaptive_weights returns exactly
\* the static defaults 0.20 / 0.25 / 0.20 / 0.20 / 0.15, and the adaptive
\* prediction has the score, direction and confidence of the static one.
C13_FallbackIsStaticDefaults ==
    (Predicted /\ AdaptiveMode
       /\ (~is_trained \/ BucketMissing(call.features) \/ BucketEmpty(call.features))) =>
        /\ get_adaptive_weights(Store, call.features) = StaticWeights
        /\ ret.adaptive.score = ret.static.score
        /\ ret.adaptive.confidence = ret.static.confidence
        /\ ret.adaptive.prediction = "LONG" <=> ret.static.prediction = "Up"

\* An adaptive prediction from a store flagged trained whose bucket for the
\* snapshot's regime is an empty dict.
C13_Witness ==
    /\ Predicted
    /\ AdaptiveMode
    /\ is_trained
    /\ BucketEmpty(call.features)
    /\ ret.adaptive.score = ret.static.score
    /\ ret.adaptive.prediction = "LONG"

\* The reports "Using adaptive weights (regime: ...)".
AdaptiveReports == {AdaptiveSignal(r) : r \in {"low", "normal", "high"}}

\* C14: when adaptive mode is requested with an untrained store, the weight-mode
\* signals of the returned prediction record the fallback to the static
\* defaults and none of them reports that adaptive weights were used.
C14_FallbackIsReported ==
    (Predicted /\ AdaptiveMode /\ ~is_trained) =>
        LET signals == ret.adaptive.signals
        IN  /\ signals # <<>>
            /\ \A n \in 1..Len(signals) : signals[n] \notin AdaptiveReports

CandidateNames ==
    {generate_weight_combinations[n].name : n \in 1..Len(generate_weight_combinations)}

\* No tested candidate was measured more accurate than the bucket's.
HoldsMostAccurate(bucket) ==
    /\ bucket \in DOMAIN regime_weights
    /\ regime_weights[bucket].name \in CandidateNames
    /\ \A name \in DOMAIN tested_combinations :
          ~RatioLess(regime_weights[bucket].accuracy,
                     tested_combinations[name].accuracy)

\* C15: after train, each of the four buckets holds the candidate measured
\* most accurate among the six, and tested_combinations has the accuracy of
\* all six.
C15_EveryBucketHoldsTheBest ==
    (sim = "store" /\ is_trained) =>
        /\ DOMAIN tested_combinations = CandidateNames
        /\ \A bucket \in Buckets : HoldsMostAccurate(bucket)

Backtesting == sim \in {"ticker", "enhanced", "strategy"}

\* The trade count a returned metrics record reports.
TradeCount(r) == IF sim = "strategy" THEN r.num_trades ELSE r.trades

\* C17: backtest_ticker, backtest_enhanced and backtest_strategy return None
\* when the replay produced no trade record; a metrics record is returned only
\* with at least one trade, and its trade count is the number of records.
C17_NoTradesReturnsNone ==
    (Backtesting /\ pc = "done") =>
      /\ Len(trades) = 0 => result.outcome = None
      /\ result.outcome = "metrics" =>
           /\ TradeCount(result) >= 1
           /\ TradeCount(result) = Len(trades)

\* C17's case: backtest_strategy returned after a loop that went over bars and
\* recorded no trade.
C17_Witness ==
    /\ sim = "strategy" /\ pc = "done"
    /\ Len(df) > lookback + 1
    /\ Len(trades) = 0

\* Whether the running replay's loop has a bar left to process.
InLoop ==
    /\ pc = "loop"
    /\ i < (IF sim = "strategy" THEN Len(df) - 1 ELSE Len(df))

\* What a bar whose processing raised must leave behind: nothing but the loop
\* index moved on to the next bar.
OnlyBarSkipped ==
    /\ pc' = "loop"
    /\ i' = i + 1
    /\ result' = result
    /\ UNCHANGED <<trades, predictions, equity, position, entry_price,
                   stop_loss, take_profit>>

\* C18 (as claimed): in every replay loop (backtest_ticker, backtest_enhanced,
\* backtest_strategy) an exception raised while bar i is processed skips bar i
\* only: trades, predictions, equity and the open position are unchanged, the
\* loop goes on at bar i + 1 and the exception does not leave the function.
C18_FailedBarIsSkipped ==
    [][(Backtesting /\ InLoop /\ ret' = "ValueError") => OnlyBarSkipped]_vars

\* The part of C18 that the code has: backtest_strategy's handler.
C18_StrategySkipsFailedBar ==
    [][(sim = "strategy" /\ InLoop /\ ret' = "ValueError") => OnlyBarSkipped]_vars

\* The neutral value of each indicator that can be undefined: one that casts no
\* vote in its category (equal moving averages, RSI 50, bb_position 0.5, ATR
\* percent 2.0, ADX 0, %K = %D = 50).
NeutralDefaults ==
    [sma_20 |-> 0, sma_50 |-> 0, rsi |-> 50, bb_position |-> 50,
     atr_percent |-> 20, adx |-> 0, k_stoch |-> 50, d_stoch |-> 50]

HasUndefined(f) == \E k \in DOMAIN NeutralDefaults : f[k] = NaN

\* The snapshot with every undefined indicator replaced by its neutral value.
Substituted(f) ==
    [k \in DOMAIN f |->
        IF k \in DOMAIN NeutralDefaults /\ f[k] = NaN THEN NeutralDefaults[k]
        ELSE f[k]]

\* C19 (as claimed): with an undefined (NaN) indicator in the snapshot, both
\* engines give every category the sub-score it has with the neutral defaults
\* substituted; in particular a NaN ADX does not give trend_strength 1.0.
C19_UndefinedIndicatorIsNeutral ==
    (Predicted /\ HasUndefined(call.features)) =>
      /\ ret.static.weights = Components(Substituted(call.features))
      /\ ret.adaptive.components = Components(Substituted(call.features))
      /\ call.features.adx = NaN =>
           /\ ret.static.weights.trend_strength # Full
           /\ ret.adaptive.components.trend_strength # Full

\* The part of C19 that the code has: an undefined indicator other than the
\* ADX casts no vote, as its neutral value would.
C19_UndefinedButAdxIsNeutral ==
    (Predicted /\ HasUndefined(call.features) /\ call.features.adx # NaN) =>
      /\ ret.static.weights = Components(Substituted(call.features))
      /\ ret.adaptive.components = Components(Substituted(call.features))

\* The number of bars in the trailing window from which the snapshot of bar k
\* is computed: df.iloc[k - window_size:k] in backtest_enhanced,
\* df.iloc[max(0, k - lookback):k] in backtest_strategy.
SnapshotWindow(k) == IF sim = "enhanced" THEN window_size ELSE HistoricalLen(k)

\* C20 (as claimed): no replay scores a snapshot computed from fewer bars than
\* the slowest indicator needs (the 50 bars of SMA50): every prediction that
\* backtest_enhanced or backtest_strategy recorded was made on a window of at
\* least 50 bars.
C20_NoScoringBeforeWarmUp ==
    sim \in {"enhanced", "strategy"} =>
      \A n \in 1..Len(predictions) :
        SnapshotWindow(predictions[n].bar) >= sma_50_window

\* ---------------------------------------------------------------- C21 .. C30
AllDefined(f) == \A k \in DOMAIN f : f[k] # NaN

\* clamp(x, 0, 1) on numerators over 120.
RefClamp(x) == IF x < 0 THEN 0 ELSE IF x > Full THEN Full ELSE x

\* The reference sub-scores, numerators over 120; RSI, ADX and %K / %D are
\* plain numbers, bb_position is in hundredths and ATR percent in tenths.
RefTrend(f) ==
    Cardinality({n \in 1..3 : CASE n = 1 -> f.slope > 0
                                [] n = 2 -> f.sma_20 > f.sma_50
                                [] n = 3 -> f.ema_12 > f.ema_26}) * (Full \div 3)

RefMomentum(f) ==
    LET rsi_part == IF f.rsi < 30 THEN 2 ELSE IF f.rsi < 50 THEN 1
                    ELSE IF f.rsi > 70 THEN -2 ELSE 0
        macd_part == IF f.macd_histogram > 0 /\ f.macd > f.macd_signal THEN 1
                     ELSE IF f.macd_histogram < 0 /\ f.macd < f.macd_signal THEN -1
                     ELSE 0
    IN  RefClamp(((rsi_part + macd_part + 2) * Full) \div 4)

RefVolatility(f) ==
    LET bb_part == IF f.bb_position < 20 THEN 1
                   ELSE IF f.bb_position > 80 THEN -1 ELSE 0
        atr_part == IF f.atr_percent < 10 THEN 1
                    ELSE IF f.atr_percent > 30 THEN -1 ELSE 0
    IN  RefClamp(((bb_part + atr_part + 1) * Full) \div 2)

RefTrendStrength(f) == RefClamp((f.adx * Full) \div 40)

\* Twice the raw stochastic score is an integer: (raw + 1) / 2 = (2 raw + 2) / 4.
RefStochastic(f) ==
    LET k_part2 == IF f.k_stoch < 20 THEN 2 ELSE IF f.k_stoch > 80 THEN -2 ELSE 0
        cross2 == IF f.k_stoch > f.d_stoch THEN 1
                  ELSE IF f.k_stoch < f.d_stoch THEN -1 ELSE 0
    IN  RefClamp(((k_part2 + cross2 + 2) * Full) \div 4)

RefComponents(f) ==
    [trend |-> RefTrend(f), momentum |-> RefMomentum(f),
     volatility |-> RefVolatility(f), trend_strength |-> RefTrendStrength(f),
     stochastic |-> RefStochastic(f)]

\* C21: for every snapshot with defined indicators the five sub-scores of
\* enhanced_prediction_adaptive are the reference formulas (trend votes / 3, the
\* clamped momentum, volatility, ADX / 40 and stochastic scores) and its final
\* score is the sum of the sub-scores times the weights in use.
C21_SubScoresAreReferenceFormulas ==
    (Predicted /\ AllDefined(call.features)) =>
      LET ref == RefComponents(call.features)
      IN  /\ ret.adaptive.components = ref
          /\ ret.adaptive.score =
               ref.trend * UsedWeights.trend + ref.momentum * UsedWeights.momentum
               + ref.volatility * UsedWeights.volatility
               + ref.trend_strength * UsedWeights.trend_strength
               + ref.stochastic * UsedWeights.stochastic

\* C21's case: a snapshot with the RSI on its threshold 50 and a bearish MACD,
\* scored with the weights of a trained store.
C21_Witness ==
    /\ Predicted /\ AllDefined(call.features)
    /\ call.features.rsi = 50 /\ call.features.macd_histogram < 0
    /\ call.features.macd < call.features.macd_signal
    /\ AdaptiveMode /\ is_trained
    /\ ret.adaptive.components.momentum = 30

\* The PnL column of the recorded trades: PnL in backtest_ticker and
\* backtest_enhanced, return in backtest_strategy.
Gains ==
    [n \in 1..Len(trades) |->
        IF sim = "strategy" THEN trades[n].return ELSE trades[n].PnL]

ReturnedMetrics == Backtesting /\ pc = "done" /\ result.outcome = "metrics"

StrictWinRate ==
    Ratio(Cardinality({n \in 1..Len(trades) : Gains[n] > 0}) * 100, Len(trades))

\* C22 (as claimed): in backtest_ticker, backtest_enhanced and backtest_strategy
\* the reported win rate is the fraction of recorded trades whose PnL (return)
\* is strictly positive; a trade with zero PnL is not counted as a win.
C22_WinRateCountsPositivePnL ==
    ReturnedMetrics => result.win_rate = StrictWinRate

\* The part of C22 that the code has: backtest_ticker and backtest_enhanced.
C22_ReplayWinRateCountsPositivePnL ==
    (ReturnedMetrics /\ Replaying) => result.win_rate = StrictWinRate

SumNegative(xs) ==
    LET term(n) == IF xs[n] < 0 THEN xs[n] ELSE 0 IN SumOver(term, 1, Len(xs))

\* The one convention: gross profit over the absolute gross loss when a trade
\* lost, +inf when none did.
OneProfitFactor ==
    IF \E n \in 1..Len(trades) : Gains[n] < 0
    THEN Finite(SumPositive(Gains), Abs(SumNegative(Gains)))
    ELSE Infinity

\* C23 (as claimed): backtest_ticker and backtest_strategy report the same
\* profit factor: (sum of positive PnL) / |sum of negative PnL| when a trade has
\* negative PnL, and +inf whenever none has, also when the only non-winning
\* trades have PnL 0; no division by zero takes place.
C23_OneProfitFactorConvention ==
    (ReturnedMetrics /\ sim \in {"ticker", "strategy"}) =>
      result.profit_factor = OneProfitFactor

\* The part of C23 that the code has: with a losing trade both functions report
\* gross profit over absolute gross loss.
C23_ProfitFactorWithLosses ==
    (ReturnedMetrics /\ sim \in {"ticker", "strategy"}
     /\ SumNegative(Gains) < 0) =>
      result.profit_factor = OneProfitFactor

\* backtest_ticker divides 0 by 0 when every trade has PnL 0.
C23_TickerNeverNaN ==
    (ReturnedMetrics /\ sim = "ticker") => result.profit_factor.kind # "nan"

\* backtest_strategy reports 0 without a losing trade.
C23_StrategyNoLossIsInfinite ==
    (ReturnedMetrics /\ sim = "strategy" /\ SumNegative(Gains) = 0) =>
      result.profit_factor.kind = "inf"

\* C24: in backtest_ticker and backtest_enhanced, after every bar and at
\* return, equity is initial_capital plus the sum of the PnL of the trade
\* records appended so far, and the reported total return is that sum over
\* initial_capital, as a percentage.
C24_EquityIsCapitalPlusPnL ==
    Replaying =>
      /\ equity = initial_capital + SumPnL(trades)
      /\ (pc = "done" /\ result.outcome = "metrics") =>
           /\ result.final_equity = equity
           /\ result.total_return.den = initial_capital
           /\ result.total_return.num = SumPnL(trades) * 100

\* C24's case: backtest_enhanced returned metrics after a winning and a losing
\* trade that do not cancel.
C24_Witness ==
    /\ sim = "enhanced" /\ pc = "done" /\ result.outcome = "metrics"
    /\ Len(trades) = 2
    /\ trades[1].PnL > 0 /\ trades[2].PnL < 0
    /\ SumPnL(trades) # 0

\* Snapshots whose bb_position is a multiple of 0.05 (or undefined), on which
\* SampleScore is exact.
ExactSample(f) == f.bb_position = NaN \/ f.bb_position % 5 = 0

\* C25 (as claimed): for every snapshot and every catalogue candidate, the
\* direction test_weight_combination derives from its score (final_score > 0.5)
\* is the direction enhanced_prediction_adaptive gives for the same snapshot
\* with the candidate's weights.
C25_TrainingScoreIsEngineScore ==
    (Predicted /\ AdaptiveMode /\ UsedWeights \in CatalogueWeights
     /\ ExactSample(call.features)) =>
      (ret.adaptive.prediction = "LONG"
         <=> Gt(SampleScore(UsedWeights, call.features), Half))

\* The same on snapshots with every indicator defined.
C25_TrainingScoreIsEngineScoreDefined ==
    (Predicted /\ AdaptiveMode /\ UsedWeights \in CatalogueWeights
     /\ ExactSample(call.features) /\ AllDefined(call.features)) =>
      (ret.adaptive.prediction = "LONG"
         <=> Gt(SampleScore(UsedWeights, call.features), Half))

\* A step of backtest_ticker's loop that processed bar i to its end.
TickerBarDone == sim = "ticker" /\ pc = "loop" /\ i' = i + 1

\* C26: in backtest_ticker, whenever no position is open when bar i is
\* processed, a position is opened on that bar at its close, LONG for an "Up"
\* prediction and SHORT for "Down"; so the simulator is flat at the top of the
\* loop only right after an exit (or before the first bar), and a replay that
\* returns from more than window_size bars has recorded a trade.
C26_FlatAlwaysEnters ==
    /\ [][(TickerBarDone /\ position = None) =>
            /\ opened' = opened + 1
            /\ entry_bar' = i
            /\ entry_price' = Close(i)
            /\ position' = Side(rule_based_prediction_4h(i))]_vars
    /\ [](sim = "ticker" /\ pc = "loop" /\ position = None /\ i > window_size
            => /\ Len(trades) > 0
               /\ trades[Len(trades)].ExitBar = i - 1)
    /\ [](sim = "ticker" /\ pc = "done" /\ Len(df) > window_size
            => Len(trades) >= 1)

\* C26's case: backtest_ticker closed a position at one bar and opened a SHORT
\* position at the next.
C26_Witness ==
    /\ sim = "ticker" /\ pc = "loop"
    /\ Len(trades) >= 1
    /\ position = "SHORT"
    /\ entry_bar = trades[Len(trades)].ExitBar + 1

\* C27 (as claimed): the 'weights' of the prediction enhanced_prediction_adaptive
\* returns are the weights its score was computed with: the static defaults in
\* static mode, the optimizer's distribution in adaptive mode, so that score is
\* the sum of components[c] * weights[c].
C27_ReportedWeightsAreUsedWeights ==
    Predicted =>
      /\ ret.adaptive.weights = UsedWeights
      /\ ret.adaptive.score =
           WeightedScore(ret.adaptive.components, ret.adaptive.weights)

\* The part of C27 that the code has: adaptive mode.
C27_AdaptiveReportedWeightsAreUsedWeights ==
    (Predicted /\ AdaptiveMode) =>
      /\ ret.adaptive.weights = UsedWeights
      /\ ret.adaptive.score =
           WeightedScore(ret.adaptive.components, ret.adaptive.weights)

\* C28 (as claimed): when backtest_ticker has a trade record but recorded no
\* prediction (a series of exactly window_size + 1 bars: the one processed bar
\* has no successor, its position is force-closed at end of period), it
\* returns a metrics record with total_predictions 0 and does not raise.
C28_NoPredictionStillReturnsMetrics ==
    (sim = "ticker" /\ pc = "done" /\ Len(trades) >= 1 /\ Len(predictions) = 0) =>
      /\ result.outcome = "metrics"
      /\ result.total_predictions = 0

\* The case arises exactly for window_size + 1 bars.
C28_OnlyForOneProcessedBar ==
    (sim = "ticker" /\ pc = "done") =>
      ((Len(trades) >= 1 /\ Len(predictions) = 0) <=> Len(df) = window_size + 1)

\* C29: in backtest_ticker and backtest_enhanced the exit check that runs on
\* the entry bar right after a position is opened never fires (prices are
\* positive): every "Stop Loss" or "Take Profit" trade exits at a bar strictly
\* later than the bar its position was opened on.
C29_NoExitOnEntryBar ==
    Replaying =>
      \A n \in 1..Len(trades) :
        trades[n].Reason \in {"Stop Loss", "Take Profit"} =>
          trades[n].ExitBar > trades[n].EntryBar

\* C29's case: backtest_enhanced recorded a stop-loss exit on the bar after
\* the entry bar.
C29_Witness ==
    /\ sim = "enhanced"
    /\ Len(trades) >= 1
    /\ trades[1].Reason = "Stop Loss"
    /\ trades[1].ExitBar = trades[1].EntryBar + 1

\* ---------------------------------------------------------------------- C30
LiveDone == sim = "live" /\ pc = "done"

\* What the engine returns on the snapshot of the call.
EnginePrediction ==
    enhanced_prediction_adaptive(call.features, "optimizer", Store, TRUE)

\* The call got its bars: the connection was made and 20 bars or more came.
LiveAnalysed == LiveDone /\ call.connected /\ call.bars >= 20

BelowThreshold ==
    EnginePrediction.confidence < ConfidencePct(call.min_confidence)

\* C30: in analyze_and_trade and in predict_live the direction acted on is the
\* engine's prediction: on LONG the stop is entry - ATR, the target is
\* entry + 2 * ATR and the bracket order is a BUY; on SHORT the stop is
\* entry + ATR, the target is entry - 2 * ATR and the order is a SELL; and
\* analyze_and_trade places no order, real or dry-run, when the confidence is
\* below min_confidence.
C30_LiveDirectionIsEnginePrediction ==
    LiveAnalysed =>
        /\ ret.op = "analyze_and_trade" /\ BelowThreshold => ~ret.success
        /\ ret.success =>
             /\ ret.direction = EnginePrediction.prediction
             /\ ret.stop_loss = (IF EnginePrediction.prediction = "LONG"
                                 THEN call.price - call.atr
                                 ELSE call.price + call.atr)
             /\ ret.take_profit = (IF EnginePrediction.prediction = "LONG"
                                   THEN call.price + 2 * call.atr
                                   ELSE call.price - 2 * call.atr)
             /\ ret.op = "analyze_and_trade" /\ ret.trade_result.placed =>
                  ret.trade_result.action =
                      (IF EnginePrediction.prediction = "LONG" THEN "BUY"
                       ELSE "SELL")

\* The part of C30 that holds: below min_confidence analyze_and_trade returns
\* without a trade result, so neither a real nor a dry-run order is made.
C30_BelowThresholdPlacesNothing ==
    LiveAnalysed /\ ret.op = "analyze_and_trade" /\ BelowThreshold =>
        /\ ~ret.success
        /\ "trade_result" \notin DOMAIN ret

\* What the two callers do instead: the direction is NEUTRAL whatever the
\* engine predicts, the levels are those of a SHORT and a placed order is a
\* SELL.
C30_LiveDirectionIsAlwaysNeutral ==
    LiveAnalysed /\ ret.success =>
        /\ ret.direction = "NEUTRAL"
        /\ ret.stop_loss = call.price + call.atr
        /\ ret.take_profit = call.price - 2 * call.atr
        /\ ret.op = "analyze_and_trade" /\ ret.trade_result.placed =>
             ret.trade_result.action = "SELL"

\* The engine predicts LONG with a confidence of min_confidence or more and
\* analyze_and_trade places a real order.
C30_LongOrderPlaced ==
    /\ LiveAnalysed
    /\ ret.op = "analyze_and_trade"
    /\ ret.success
    /\ EnginePrediction.prediction = "LONG"
    /\ ret.trade_result.placed

====
